---- MODULE Spec2Model ----
(***************************************************************************)
(* Queue-driven tee-time booking scheduler (process-queue script).         *)
(* The model follows src/unnamed/part_001 lines 1-865 (batch-parallel      *)
(* processRealRequests) and, as the "sequential" variant, the              *)
(* processRealRequests of src/unnamed/part_002 (one shared browser).       *)
(***************************************************************************)
EXTENDS Integers, Sequences, FiniteSets, TLC

\* ------------------------------------------------------------------------
\* Bounds of the model
\* ------------------------------------------------------------------------
MaxRequests == 2      \* requests in the queue document at the start
MaxRuns == 2          \* invocations of the script in one behaviour

\* ------------------------------------------------------------------------
\* Program constants
\* ------------------------------------------------------------------------
maxRetries == 3
maxConcurrentRequests == 3
seqMaxRetries == 1
LeadDays == 30
GraceDays == 3

Absent == "absent"

\* ------------------------------------------------------------------------
\* Calendar arithmetic of the JavaScript Date object.  A date string
\* 'YYYY-MM-DD' is the tuple <<y, m, d>>; an instant is a number of hours
\* since 2025-01-01T00:00Z.
\* ------------------------------------------------------------------------
IsLeapYear(y) == (y % 4 = 0) /\ ((y % 100 # 0) \/ (y % 400 = 0))

DaysInYear(y) == IF IsLeapYear(y) THEN 366 ELSE 365

DaysInMonth(y, m) ==
  IF m = 2 THEN (IF IsLeapYear(y) THEN 29 ELSE 28)
  ELSE IF m \in {4, 6, 9, 11} THEN 30 ELSE 31

RECURSIVE DayFromYear(_)
DayFromYear(y) == IF y <= 2025 THEN 0 ELSE DayFromYear(y - 1) + DaysInYear(y - 1)

RECURSIVE DayWithinYear(_, _)
DayWithinYear(y, m) ==
  IF m <= 1 THEN 0 ELSE DayWithinYear(y, m - 1) + DaysInMonth(y, m - 1)

\* ECMAScript MakeDay: the day number of (y, m, 1) plus dt - 1; dt may
\* exceed the length of the month (setDate overflow).
MakeDay(y, m, dt) == DayFromYear(y) + DayWithinYear(y, m) + dt - 1

RECURSIVE CivilFromYearDay(_, _, _)
CivilFromYearDay(y, m, n) ==
  IF n >= DaysInMonth(y, m) THEN CivilFromYearDay(y, m + 1, n - DaysInMonth(y, m))
  ELSE <<y, m, n + 1>>

RECURSIVE CivilFromDayIn(_, _)
CivilFromDayIn(y, n) ==
  IF n >= DaysInYear(y) THEN CivilFromDayIn(y + 1, n - DaysInYear(y))
  ELSE CivilFromYearDay(y, 1, n)

\* year, month and day of a day number (YearFromTime/MonthFromTime/DateFromTime)
CivilFromDay(n) == CivilFromDayIn(2025, n)

\* Offset of local time from UTC in hours, for the process time zone.
\* America/New_York switches from -5 to -4 on 2025-03-09 at 07:00Z
\* (02:00 local standard time).
DstStartUtc == MakeDay(2025, 3, 9) * 24 + 7
DstStartLocal == MakeDay(2025, 3, 9) * 24 + 2

LocalTZA(tz, t) ==
  IF tz = "UTC" THEN 0 ELSE IF t < DstStartUtc THEN -5 ELSE -4

LocalTZAOfLocal(tz, loc) ==
  IF tz = "UTC" THEN 0 ELSE IF loc < DstStartLocal THEN -5 ELSE -4

\* new Date('YYYY-MM-DD'): a date-only string is read as UTC midnight
DateParse(s) == MakeDay(s[1], s[2], s[3]) * 24

\* Date.prototype.getDate: day of the month in local time
GetDate(tz, t) == CivilFromDay((t + LocalTZA(tz, t)) \div 24)[3]

\* Date.prototype.setDate(dt): replace the local day of the month, keep the
\* local time of day, convert back to UTC
SetDate(tz, t, dt) ==
  LET loc == t + LocalTZA(tz, t)
      c == CivilFromDay(loc \div 24)
      newloc == MakeDay(c[1], c[2], dt) * 24 + (loc % 24)
  IN newloc - LocalTZAOfLocal(tz, newloc)

\* toISOString().split('T')[0]: the UTC calendar date
ToISODate(t) == CivilFromDay(t \div 24)

\* a <= b on date strings (code unit order).  The fields are zero-padded, so
\* the order of the strings is the order of the field sequences; a string
\* that lacks a field ('2025-03' is <<2025, 3>>) is a proper prefix of the
\* strings that continue it and sorts before them
StrLE(a, b) ==
  LET n == IF Len(a) < Len(b) THEN Len(a) ELSE Len(b)
      differ == {k \in 1..n : a[k] # b[k]}
  IN IF differ = {} THEN Len(a) <= Len(b)
     ELSE LET k == CHOOSE x \in differ : \A y \in differ : x <= y
          IN a[k] < b[k]

\* ------------------------------------------------------------------------
\* Eligibility filter
\* ------------------------------------------------------------------------
thirtyDaysFromTodayString(tz, td) ==
  ToISODate(SetDate(tz, DateParse(td), GetDate(tz, DateParse(td)) + LeadDays))

threeDaysAfterTodayString(tz, td) ==
  ToISODate(SetDate(tz, DateParse(td), GetDate(tz, DateParse(td)) + GraceDays))

\* IsDue without the status test of the callback
IsDue_IgnoreStatus(request, tz, td) ==
  LET isExactly30Days == request.playDate = thirtyDaysFromTodayString(tz, td)
      isWithin3DaysOfToday ==
        StrLE(td, request.playDate)
        /\ StrLE(request.playDate, threeDaysAfterTodayString(tz, td))
  IN isExactly30Days \/ isWithin3DaysOfToday

\* IsDue with a window of three days before and three days after today
IsDue_ThreeDaysBefore(request, tz, td) ==
  IF request.status # "pending" THEN FALSE
  ELSE LET isExactly30Days == request.playDate = thirtyDaysFromTodayString(tz, td)
           threeDaysBeforeTodayString ==
             ToISODate(SetDate(tz, DateParse(td), GetDate(tz, DateParse(td)) - GraceDays))
           isWithin3DaysOfToday ==
             StrLE(threeDaysBeforeTodayString, request.playDate)
             /\ StrLE(request.playDate, threeDaysAfterTodayString(tz, td))
       IN isExactly30Days \/ isWithin3DaysOfToday

\* the predicate of the filter callback
IsDue(request, tz, td) ==
  IF request.status # "pending" THEN FALSE
  ELSE LET isExactly30Days == request.playDate = thirtyDaysFromTodayString(tz, td)
           isWithin3DaysOfToday ==
             StrLE(td, request.playDate)
             /\ StrLE(request.playDate, threeDaysAfterTodayString(tz, td))
       IN isExactly30Days \/ isWithin3DaysOfToday

\* filterTodayRequests returns the selected request objects themselves; the
\* lists of the model hold references into the heap of request objects, so
\* that a later write to a selected request is a write to the queue entry.
\* the filter returning the newest request first
filterTodayRequests_NewestFirst(qd, h, tz, td) ==
  LET due == SelectSeq(qd.bookingRequests, LAMBDA r : IsDue(h[r], tz, td))
  IN [k \in 1..Len(due) |-> due[Len(due) + 1 - k]]

filterTodayRequests(qd, h, tz, td) ==
  SelectSeq(qd.bookingRequests, LAMBDA r : IsDue(h[r], tz, td))

\* ------------------------------------------------------------------------
\* Slot Finder.  A row of the rendered tee sheet is
\* [unavailable, spots, hour, minute, ampm]: the class of the row, the number
\* in its availability cell and the text "h:mm AM|PM" of its time cell.  A
\* time-of-day string "HH:MM" of a request window is the pair <<h, m>>.
\* ------------------------------------------------------------------------
RequiredSpots == 4

\* a row that is not marked unavailable and shows the required spots
OpenRow(hour, minute, ampm) ==
  [unavailable |-> FALSE, spots |-> RequiredSpots, hour |-> hour, minute |-> minute,
   ampm |-> ampm]

\* String(n).padStart(2, '0')
padStart2(n) == IF n < 10 THEN "0" \o ToString(n) ELSE ToString(n)

\* parseTime: 12-hour text to 24-hour fields and the "HH:MM" text.  The code
\* sorts on the text (sortableTime); the pair <<hour, minute>> stands for it
\* in comparisons, the order of zero-padded texts being the order of the pairs
parseTime(row) ==
  LET hour == IF row.ampm = "PM" /\ row.hour # 12 THEN row.hour + 12
              ELSE IF row.ampm = "AM" /\ row.hour = 12 THEN 0
              ELSE row.hour
  IN [hour |-> hour, minute |-> row.minute,
      formattedTime |-> padStart2(hour) \o ":" \o padStart2(row.minute),
      sortable |-> <<hour, row.minute>>]

\* timeStringToNumber and slotTimeNum (hour + minute / 60), in sixtieths
timeStringToNumber(timeStr) == timeStr[1] * 60 + timeStr[2]

\* findAvailableTeeSlotsInFrame with the upper end of the window excluded
RECURSIVE findAvailableTeeSlotsInFrame_EndExclusive(_, _, _, _)
findAvailableTeeSlotsInFrame_EndExclusive(rows, timeRange, k, slots) ==
  IF k > Len(rows) THEN slots
  ELSE LET row == rows[k]
           parsed == parseTime(row)
           slotTimeNum == parsed.hour * 60 + parsed.minute
           skip == \/ row.unavailable
                   \/ row.spots # RequiredSpots
                   \/ slotTimeNum < timeStringToNumber(timeRange.start)
                   \/ slotTimeNum >= timeStringToNumber(timeRange.end)
       IN findAvailableTeeSlotsInFrame_EndExclusive(rows, timeRange, k + 1,
            IF skip THEN slots
            ELSE Append(slots, [time |-> parsed.formattedTime, id |-> Len(slots),
                                sortableTime |-> parsed.sortable]))

\* findAvailableTeeSlotsInFrame: the forEach over the rows from row k on,
\* `slots` being the slots pushed so far (slotIdCounter is their number)
RECURSIVE findAvailableTeeSlotsInFrame(_, _, _, _)
findAvailableTeeSlotsInFrame(rows, timeRange, k, slots) ==
  IF k > Len(rows) THEN slots
  ELSE LET row == rows[k]
           parsed == parseTime(row)
           slotTimeNum == parsed.hour * 60 + parsed.minute
           skip == \/ row.unavailable
                   \/ row.spots # RequiredSpots
                   \/ slotTimeNum < timeStringToNumber(timeRange.start)
                   \/ slotTimeNum > timeStringToNumber(timeRange.end)
       IN findAvailableTeeSlotsInFrame(rows, timeRange, k + 1,
            IF skip THEN slots
            ELSE Append(slots, [time |-> parsed.formattedTime, id |-> Len(slots),
                                sortableTime |-> parsed.sortable]))

\* findAvailableTeeSlots of the earlier script: the window is a pair of
\* hours and only the hour of the slot is compared
RECURSIVE findAvailableTeeSlots(_, _, _, _)
findAvailableTeeSlots(rows, timeRange, k, slots) ==
  IF k > Len(rows) THEN slots
  ELSE LET row == rows[k]
           parsed == parseTime(row)
           keep == /\ ~row.unavailable
                   /\ row.spots = RequiredSpots
                   /\ parsed.hour >= timeRange.start[1]
                   /\ parsed.hour <= timeRange.end[1]
       IN findAvailableTeeSlots(rows, timeRange, k + 1,
            IF keep
            THEN Append(slots, [time |-> parsed.formattedTime, id |-> Len(slots),
                                sortableTime |-> parsed.sortable])
            ELSE slots)

\* a.sortableTime.localeCompare(b.sortableTime) < 0
SortsBefore(a, b) ==
  \/ a.sortableTime[1] < b.sortableTime[1]
  \/ a.sortableTime[1] = b.sortableTime[1] /\ a.sortableTime[2] < b.sortableTime[2]

\* Array.prototype.sort with that comparator (stable): insertion of slot x
\* behind the slots that do not sort after it
RECURSIVE InsertSorted(_, _)
InsertSorted(sorted, x) ==
  IF sorted = <<>> THEN <<x>>
  ELSE IF SortsBefore(x, Head(sorted)) THEN <<x>> \o sorted
  ELSE <<Head(sorted)>> \o InsertSorted(Tail(sorted), x)

RECURSIVE SortSlots(_)
SortSlots(slots) ==
  IF slots = <<>> THEN <<>>
  ELSE InsertSorted(SortSlots(SubSeq(slots, 1, Len(slots) - 1)), slots[Len(slots)])

Reverse(s) == [k \in 1..Len(s) |-> s[Len(s) + 1 - k]]

\* availableTimes.sort(...).reverse()[0] of the current scripts,
\* availableTimes.sort(...)[0] of the earlier script
selectedSlot(variant, availableTimes) ==
  IF variant = "earlier" THEN SortSlots(availableTimes)[1]
  ELSE Reverse(SortSlots(availableTimes))[1]

\* ------------------------------------------------------------------------
\* Data model
\* ------------------------------------------------------------------------
EmptyDoc == [bookingRequests |-> <<>>, processedRequests |-> <<>>]

\* request windows the submission surface stores (start before end)
MorningWindow == [start |-> <<9, 0>>, end |-> <<11, 0>>]

MiddayWindow == [start |-> <<10, 45>>, end |-> <<13, 0>>]

LongWindow == [start |-> <<9, 0>>, end |-> <<13, 0>>]

\* a request as the submission surface writes it: pending, no outcome field
NewRequest(id, pd, tr) ==
  [id |-> id, requestDate |-> "requestDate", playDate |-> pd, timeRange |-> tr,
   status |-> "pending", requestedBy |-> "web-user", processedDate |-> Absent,
   bookedTime |-> Absent, confirmationNumber |-> Absent, failureReason |-> Absent]

\* one message of the results string
Msg(kind, id) == [kind |-> kind, id |-> id]

NoMessage == Msg("none", -1)

VARIABLES
  disk,           \* the queue file: [state: missing | corrupt | ok, doc]
  diskBefore,     \* the queue file when the current invocation started
  today,          \* getTodayDate() of the current invocation
  cfg,            \* environment of the process
  runs,           \* number of invocations started so far
  pc,             \* position of processQueue
  queueData,      \* the loaded document: two lists of object references
  heap,           \* the request objects, by reference
  todayRequests,  \* references selected by filterTodayRequests
  i,              \* loop index of the batch loop / of the request loop
  workers,        \* the sessions of the current batch
  results,        \* messages accumulated by processRequests
  processedCount,
  outputs,        \* setOutput calls of the current invocation
  launched,       \* chromium.launch calls of the current invocation
  logins,         \* loginToWebsite calls of the current invocation
  fileWrites,     \* fs.writeFileSync calls on the queue file, this invocation
  frame,          \* the booking frame of an attempt: rows rendered, window
                  \* passed to the Slot Finder, slots returned, slot selected
  surface,        \* the submission page: the step of bookTeeTime, the file
                  \* data it fetched, the document it sends, the ids it added
  timer           \* a call of sleepUntilTimeInZone: its arguments, the clock
                  \* it reads and what it does with the promise

vars == <<disk, diskBefore, today, cfg, runs, pc, queueData, heap, todayRequests,
          i, workers, results, processedCount, outputs, launched, logins,
          fileWrites, frame, surface, timer>>

\* the document a JSON.stringify of the in-memory queue produces
Deref(qd, h) ==
  [bookingRequests |-> [k \in 1..Len(qd.bookingRequests) |-> h[qd.bookingRequests[k]]],
   processedRequests |-> [k \in 1..Len(qd.processedRequests) |-> h[qd.processedRequests[k]]]]

Simulated == cfg.testMode /\ cfg.simulate

NextDay(td) == CivilFromDay(MakeDay(td[1], td[2], td[3]) + 1)

Out(name, value) == [name |-> name, value |-> value]

\* ------------------------------------------------------------------------
\* processQueue up to the dispatch
\* ------------------------------------------------------------------------
\* the queue createTestData writes: one pending request for today
TestQueue(td) ==
  [bookingRequests |->
     <<[NewRequest(0, td, [start |-> <<8, 0>>, end |-> <<12, 0>>])
          EXCEPT !.requestedBy = "test-user"]>>,
   processedRequests |-> <<>>]

\* if (isTestMode) createTestData()
CreateTestData ==
  /\ pc = "start"
  /\ IF cfg.testMode /\ disk.state = "missing"
     THEN /\ disk' = [state |-> "ok", doc |-> TestQueue(today)]
          /\ fileWrites' = fileWrites + 1
     ELSE UNCHANGED <<disk, fileWrites>>
  /\ pc' = "init"
  /\ UNCHANGED <<frame, surface, timer>>
  /\ UNCHANGED <<diskBefore, today, cfg, runs, queueData, heap, todayRequests, i,
                 workers, results, processedCount, outputs, launched, logins>>

\* initializeQueue that answers a file it cannot parse like a missing file
initializeQueue_CorruptAsEmpty ==
  /\ pc = "init"
  /\ IF disk.state \in {"missing", "corrupt"}
     THEN /\ disk' = [state |-> "ok", doc |-> EmptyDoc]
          /\ fileWrites' = fileWrites + 1
          /\ outputs' = outputs \o <<Out("processed_count", 0),
                                     Out("booking_status", "failure"),
                                     Out("results", <<Msg("emptyQueue", -1)>>)>>
          /\ queueData' = EmptyDoc
          /\ heap' = <<>>
     ELSE /\ heap' = disk.doc.bookingRequests \o disk.doc.processedRequests
          /\ queueData' =
               [bookingRequests |-> [k \in 1..Len(disk.doc.bookingRequests) |-> k],
                processedRequests |-> [k \in 1..Len(disk.doc.processedRequests) |->
                                         Len(disk.doc.bookingRequests) + k]]
          /\ UNCHANGED <<disk, fileWrites, outputs>>
  /\ pc' = "loaded"
  /\ UNCHANGED <<frame, surface, timer>>
  /\ UNCHANGED <<diskBefore, today, cfg, runs, todayRequests, i, workers, results,
                 processedCount, launched, logins>>

\* initializeQueue, with logEmptyBooking when the file is missing; a parse
\* failure rejects processQueue and the catch handler exits with status 1
initializeQueue ==
  /\ pc = "init"
  /\ CASE disk.state = "missing" ->
            /\ disk' = [state |-> "ok", doc |-> EmptyDoc]
            /\ fileWrites' = fileWrites + 1
            /\ outputs' = outputs \o <<Out("processed_count", 0),
                                       Out("booking_status", "failure"),
                                       Out("results", <<Msg("emptyQueue", -1)>>)>>
            /\ queueData' = EmptyDoc
            /\ heap' = <<>>
            /\ pc' = "loaded"
       [] disk.state = "corrupt" ->
            /\ pc' = "exit1"
            /\ UNCHANGED <<disk, fileWrites, outputs, queueData, heap>>
       [] OTHER ->
            /\ heap' = disk.doc.bookingRequests \o disk.doc.processedRequests
            /\ queueData' =
                 [bookingRequests |-> [k \in 1..Len(disk.doc.bookingRequests) |-> k],
                  processedRequests |-> [k \in 1..Len(disk.doc.processedRequests) |->
                                           Len(disk.doc.bookingRequests) + k]]
            /\ pc' = "loaded"
            /\ UNCHANGED <<disk, fileWrites, outputs>>
  /\ UNCHANGED <<frame, surface, timer>>
  /\ UNCHANGED <<diskBefore, today, cfg, runs, todayRequests, i, workers, results,
                 processedCount, launched, logins>>

FilterToday ==
  /\ pc = "loaded"
  /\ todayRequests' = filterTodayRequests(queueData, heap, cfg.tz, today)
  /\ pc' = "filtered"
  /\ UNCHANGED <<frame, surface, timer>>
  /\ UNCHANGED <<disk, diskBefore, today, cfg, runs, queueData, heap, i, workers,
                 results, processedCount, outputs, launched, logins, fileWrites>>

\* the short-circuit reporting the status of logEmptyBooking
ShortCircuit_ReportsFailure ==
  /\ pc = "filtered"
  /\ Len(todayRequests) = 0
  /\ outputs' = outputs \o <<Out("processed_count", 0),
                             Out("booking_status", "failure"),
                             Out("results", <<Msg("noneToday", -1)>>)>>
  /\ pc' = "exit0"
  /\ UNCHANGED <<frame, surface, timer>>
  /\ UNCHANGED <<disk, diskBefore, today, cfg, runs, queueData, heap, todayRequests,
                 i, workers, results, processedCount, launched, logins, fileWrites>>

\* if (todayRequests.length === 0) { ...; return; }
ShortCircuit ==
  /\ pc = "filtered"
  /\ Len(todayRequests) = 0
  /\ outputs' = outputs \o <<Out("processed_count", 0),
                             Out("booking_status", "success"),
                             Out("results", <<Msg("noneToday", -1)>>)>>
  /\ pc' = "exit0"
  /\ UNCHANGED <<frame, surface, timer>>
  /\ UNCHANGED <<disk, diskBefore, today, cfg, runs, queueData, heap, todayRequests,
                 i, workers, results, processedCount, launched, logins, fileWrites>>

\* processRequests: simulation only when TEST_MODE and SIMULATE_BOOKING are
\* both set, the real processing otherwise
processRequests ==
  /\ pc = "filtered"
  /\ Len(todayRequests) > 0
  /\ results' = <<>>
  /\ processedCount' = 0
  /\ i' = 0
  /\ pc' = IF Simulated \/ cfg.variant = "parallel" THEN "loop" ELSE "seqlaunch"
  /\ UNCHANGED <<frame, surface, timer>>
  /\ UNCHANGED <<disk, diskBefore, today, cfg, runs, queueData, heap, todayRequests,
                 workers, outputs, launched, logins, fileWrites>>

\* ------------------------------------------------------------------------
\* processSingleRequest: one attempt on a request object.  The input of the
\* attempt is what the remote workflow does: the date control cannot be
\* clicked, a step throws, or the tee sheet `rows` is rendered for the
\* selected date.  Only the fields assigned by the code change; the others
\* keep their value.
\* ------------------------------------------------------------------------
AttemptOutcomes == {"dateNotClicked", "exception", "rendered"}

\* tee sheets the site may show an attempt: no open row, or a morning and an
\* afternoon row
AttemptSheets == {<<>>, <<OpenRow(9, 30, "AM"), OpenRow(1, 0, "PM")>>}

\* a tee sheet is rendered only in an attempt that gets as far as the sheet
SheetsShown(outcome) == IF outcome = "rendered" THEN AttemptSheets ELSE {<<>>}

\* error.message of an exception thrown by the browser automation: the text
\* is whatever the library reports, one value stands for all of them
ErrorMessage == "error.message"

\* isNaN(new Date(year, month, day).getTime()): a field that is missing from
\* playDate is undefined, Number(undefined) is NaN and the date is invalid;
\* numeric fields give a valid date whatever their range
InvalidDate(playDate) == Len(playDate) < 3

\* the message of a booking names the booked time
BookedMsg(id, time) == [kind |-> "booked", id |-> id, time |-> time]

\* toLocaleString('en-US', { month: 'short' }) of a Date
MonthShort ==
  <<"Jan", "Feb", "Mar", "Apr", "May", "Jun", "Jul", "Aug", "Sep", "Oct", "Nov", "Dec">>

\* `${month} ${playDateObj.getDate()}` of new Date(year, month - 1, day): the
\* constructor and the getters both work in local time, and a day past the
\* end of its month rolls over into the next month
targetDateText(playDate) ==
  LET civil == CivilFromDay(MakeDay(playDate[1], playDate[2], playDate[3]))
  IN MonthShort[civil[2]] \o " " \o ToString(civil[3])

\* processSingleRequest recording a date that cannot be selected as a defect
processSingleRequest_DateIsError(variant, request, outcome, rows) ==
  IF InvalidDate(request.playDate)
  THEN [request |-> [request EXCEPT !.status = "error", !.processedDate = "set",
                                    !.failureReason = "Invalid date in request"],
        message |-> Msg("invalidDate", request.id), success |-> FALSE]
  ELSE IF outcome = "dateNotClicked"
  THEN [request |-> [request EXCEPT !.status = "error", !.processedDate = "set",
                                    !.failureReason =
                                      "Could not select date \"" \o
                                      targetDateText(request.playDate) \o "\""],
        message |-> Msg("failedDate", request.id), success |-> FALSE]
  ELSE IF outcome = "exception"
  THEN [request |-> [request EXCEPT !.status = "error", !.processedDate = "set",
                                    !.failureReason = ErrorMessage],
        message |-> Msg("error", request.id), success |-> FALSE]
  ELSE LET availableTimes ==
             findAvailableTeeSlotsInFrame(rows, request.timeRange, 1, <<>>)
       IN IF availableTimes = <<>>
          THEN [request |-> [request EXCEPT
                               !.status = "failed", !.processedDate = "set",
                               !.failureReason = "No times with 4 spots in range"],
                message |-> Msg("noTimes", request.id), success |-> FALSE]
          ELSE [request |-> [request EXCEPT
                               !.status = "success", !.processedDate = "set",
                               !.bookedTime = selectedSlot(variant, availableTimes).time],
                message |-> BookedMsg(request.id,
                                      selectedSlot(variant, availableTimes).time),
                success |-> TRUE]

processSingleRequest(variant, request, outcome, rows) ==
  IF InvalidDate(request.playDate)
  THEN [request |-> [request EXCEPT !.status = "error", !.processedDate = "set",
                                    !.failureReason = "Invalid date in request"],
        message |-> Msg("invalidDate", request.id), success |-> FALSE]
  ELSE IF outcome = "dateNotClicked"
  THEN [request |-> [request EXCEPT !.status = "failed", !.processedDate = "set",
                                    !.failureReason =
                                      "Could not select date \"" \o
                                      targetDateText(request.playDate) \o "\""],
        message |-> Msg("failedDate", request.id), success |-> FALSE]
  ELSE IF outcome = "exception"
  THEN [request |-> [request EXCEPT !.status = "error", !.processedDate = "set",
                                    !.failureReason = ErrorMessage],
        message |-> Msg("error", request.id), success |-> FALSE]
  ELSE LET availableTimes ==
             findAvailableTeeSlotsInFrame(rows, request.timeRange, 1, <<>>)
       IN IF availableTimes = <<>>
          THEN [request |-> [request EXCEPT
                               !.status = "failed", !.processedDate = "set",
                               !.failureReason = "No times with 4 spots in range"],
                message |-> Msg("noTimes", request.id), success |-> FALSE]
          ELSE [request |-> [request EXCEPT
                               !.status = "success", !.processedDate = "set",
                               !.bookedTime = selectedSlot(variant, availableTimes).time],
                message |-> BookedMsg(request.id,
                                      selectedSlot(variant, availableTimes).time),
                success |-> TRUE]

\* the catch block of processRequestWithNewBrowser
CatchInSession(request, errorMessage) ==
  [request EXCEPT !.status = "error", !.processedDate = "set",
                  !.failureReason = errorMessage]

\* ------------------------------------------------------------------------
\* Batch loop of processRealRequests / simulateProcessingRequests
\* ------------------------------------------------------------------------
NewWorker(r) ==
  [req |-> r, pc |-> IF Simulated THEN "sim" ELSE "launch", attempt |-> 0,
   success |-> FALSE, browser |-> FALSE, message |-> NoMessage, gate |-> 0]

\* todayRequests.slice(i, i + maxConcurrentRequests), each mapped to a session
BatchStart ==
  /\ pc = "loop"
  /\ workers' = [k \in 1..(IF Len(todayRequests) - i < maxConcurrentRequests
                           THEN Len(todayRequests) - i ELSE maxConcurrentRequests) |->
                   NewWorker(todayRequests[i + k])]
  /\ pc' = "batch"
  /\ UNCHANGED <<frame, surface, timer>>
  /\ UNCHANGED <<disk, diskBefore, today, cfg, runs, queueData, heap, todayRequests,
                 i, results, processedCount, outputs, launched, logins, fileWrites>>

\* a session runs while processRealRequests awaits its batch.  Sessions that
\* are still running when the outer catch has taken over are left where they
\* are: the code after the catch is synchronous up to the end of
\* processQueue, and nothing a session does later reaches the queue file.
SessionMayRun(k) == pc = "batch" /\ k \in DOMAIN workers

\* processRequestInParallel of the simulation
SimRequest(k) ==
  /\ SessionMayRun(k)
  /\ workers[k].pc = "sim"
  /\ heap' = [heap EXCEPT ![workers[k].req] =
                [@ EXCEPT !.status = "success", !.processedDate = "set",
                          !.bookedTime = "09:30", !.confirmationNumber = "SIM"]]
  /\ workers' = [workers EXCEPT ![k] =
                   [@ EXCEPT !.pc = "resolved", !.success = TRUE,
                             !.message = Msg("simBooked", heap[workers[k].req].id)]]
  /\ UNCHANGED <<frame, surface, timer>>
  /\ UNCHANGED <<disk, diskBefore, today, cfg, runs, pc, queueData, todayRequests, i,
                 results, processedCount, outputs, launched, logins, fileWrites>>

\* chromium.launch: a failure is caught by the session's own catch block
WLaunch(k) ==
  /\ SessionMayRun(k)
  /\ workers[k].pc = "launch"
  /\ launched' = launched + 1
  /\ \/ /\ workers' = [workers EXCEPT ![k] = [@ EXCEPT !.pc = "login", !.browser = TRUE]]
        /\ UNCHANGED heap
     \/ /\ heap' = [heap EXCEPT ![workers[k].req] = CatchInSession(@, ErrorMessage)]
        /\ workers' = [workers EXCEPT ![k] =
                         [@ EXCEPT !.pc = "resolved",
                                   !.message = Msg("error", heap[workers[k].req].id)]]
  /\ UNCHANGED <<frame, surface, timer>>
  /\ UNCHANGED <<disk, diskBefore, today, cfg, runs, pc, queueData, todayRequests, i,
                 results, processedCount, outputs, logins, fileWrites>>

\* loginToWebsite: throws when a credential is missing (and may throw in
\* page.goto or on the form).  After the login comes the Timing Gate:
\* if (IS_SCHEDULED_RUN == "true" && attempt === 1) sleepUntilTimeInZone(...),
\* `gate` counting the calls of sleepUntilTimeInZone of the session
WLogin(k) ==
  /\ SessionMayRun(k)
  /\ workers[k].pc = "login"
  /\ logins' = logins + 1
  /\ \/ /\ cfg.creds
        /\ workers' = [workers EXCEPT ![k] =
                         [@ EXCEPT !.pc = "attempt",
                                   !.gate = IF cfg.scheduled /\ workers[k].attempt = 1
                                            THEN @ + 1 ELSE @]]
        /\ UNCHANGED heap
     \/ /\ heap' = [heap EXCEPT ![workers[k].req] =
                      CatchInSession(@, IF cfg.creds THEN ErrorMessage
                                        ELSE "credentials not found")]
        /\ workers' = [workers EXCEPT ![k] =
                         [@ EXCEPT !.pc = "close",
                                   !.message = Msg("error", heap[workers[k].req].id)]]
  /\ UNCHANGED <<frame, surface, timer>>
  /\ UNCHANGED <<disk, diskBefore, today, cfg, runs, pc, queueData, todayRequests, i,
                 results, processedCount, outputs, launched, fileWrites>>

\* the retry loop giving up one attempt before the bound
WAttempt_GivesUpEarly(k) ==
  /\ SessionMayRun(k)
  /\ workers[k].pc = "attempt"
  /\ workers[k].attempt < maxRetries /\ ~workers[k].success
  /\ LET w == workers[k]
         att == w.attempt + 1
     IN \/ /\ heap' = [heap EXCEPT ![w.req] = CatchInSession(@, ErrorMessage)]
           /\ workers' = [workers EXCEPT ![k] =
                            [@ EXCEPT !.pc = "close", !.attempt = 0,
                                      !.message = Msg("error", heap[w.req].id)]]
        \/ \E o \in AttemptOutcomes : \E rows \in SheetsShown(o) :
             LET res == processSingleRequest(cfg.variant, heap[w.req], o, rows)
             IN /\ heap' = [heap EXCEPT ![w.req] = res.request]
                /\ workers' = [workers EXCEPT ![k] =
                                 IF res.success \/ att = maxRetries - 1
                                 THEN [@ EXCEPT !.pc = "close", !.attempt = 0,
                                                !.message = res.message,
                                                !.success = res.success]
                                 ELSE [@ EXCEPT !.attempt = att,
                                                !.message = res.message]]
  /\ UNCHANGED <<frame, surface, timer>>
  /\ UNCHANGED <<disk, diskBefore, today, cfg, runs, pc, queueData, todayRequests, i,
                 results, processedCount, outputs, launched, logins, fileWrites>>

\* the retry loop without the test of requestProcessedSuccessfully
WAttempt_RetriesAfterSuccess(k) ==
  /\ SessionMayRun(k)
  /\ workers[k].pc = "attempt"
  /\ workers[k].attempt < maxRetries
  /\ LET w == workers[k]
         att == w.attempt + 1
     IN \/ /\ heap' = [heap EXCEPT ![w.req] = CatchInSession(@, ErrorMessage)]
           /\ workers' = [workers EXCEPT ![k] =
                            [@ EXCEPT !.pc = "close", !.attempt = 0,
                                      !.message = Msg("error", heap[w.req].id)]]
        \/ \E o \in AttemptOutcomes : \E rows \in SheetsShown(o) :
             LET res == processSingleRequest(cfg.variant, heap[w.req], o, rows)
             IN /\ heap' = [heap EXCEPT ![w.req] = res.request]
                /\ workers' = [workers EXCEPT ![k] =
                                 IF att = maxRetries
                                 THEN [@ EXCEPT !.pc = "close", !.attempt = 0,
                                                !.message = res.message,
                                                !.success = res.success]
                                 ELSE [@ EXCEPT !.attempt = att,
                                                !.message = res.message,
                                                !.success = res.success]]
  /\ UNCHANGED <<frame, surface, timer>>
  /\ UNCHANGED <<disk, diskBefore, today, cfg, runs, pc, queueData, todayRequests, i,
                 results, processedCount, outputs, launched, logins, fileWrites>>

\* one iteration of the retry loop: navigation (may throw into the session's
\* catch block), then processSingleRequest; the counter of the loop is dead
\* once the loop is left
WAttempt(k) ==
  /\ SessionMayRun(k)
  /\ workers[k].pc = "attempt"
  /\ workers[k].attempt < maxRetries /\ ~workers[k].success
  /\ LET w == workers[k]
         att == w.attempt + 1
     IN \/ /\ heap' = [heap EXCEPT ![w.req] = CatchInSession(@, ErrorMessage)]
           /\ workers' = [workers EXCEPT ![k] =
                            [@ EXCEPT !.pc = "close", !.attempt = 0,
                                      !.message = Msg("error", heap[w.req].id)]]
        \/ \E o \in AttemptOutcomes : \E rows \in SheetsShown(o) :
             LET res == processSingleRequest(cfg.variant, heap[w.req], o, rows)
             IN /\ heap' = [heap EXCEPT ![w.req] = res.request]
                /\ workers' = [workers EXCEPT ![k] =
                                 IF res.success \/ att = maxRetries
                                 THEN [@ EXCEPT !.pc = "close", !.attempt = 0,
                                                !.message = res.message,
                                                !.success = res.success]
                                 ELSE [@ EXCEPT !.attempt = att,
                                                !.message = res.message]]
  /\ UNCHANGED <<frame, surface, timer>>
  /\ UNCHANGED <<disk, diskBefore, today, cfg, runs, pc, queueData, todayRequests, i,
                 results, processedCount, outputs, launched, logins, fileWrites>>

\* a close that throws handled by the catch block of the session, which
\* records the request as an error
WClose_CaughtInSession(k) ==
  /\ SessionMayRun(k)
  /\ workers[k].pc = "close"
  /\ \/ /\ workers' = [workers EXCEPT ![k] = [@ EXCEPT !.pc = "resolved", !.browser = FALSE]]
        /\ UNCHANGED heap
     \/ /\ heap' = [heap EXCEPT ![workers[k].req] = CatchInSession(@, ErrorMessage)]
        /\ workers' = [workers EXCEPT ![k] =
                         [@ EXCEPT !.pc = "resolved", !.success = FALSE,
                                   !.message = Msg("error", heap[workers[k].req].id)]]
  /\ UNCHANGED <<frame, surface, timer>>
  /\ UNCHANGED <<disk, diskBefore, today, cfg, runs, pc, queueData, todayRequests, i,
                 results, processedCount, outputs, launched, logins, fileWrites>>

\* finally { if (browser) await browser.close(); }  A close that throws
\* rejects the session, Promise.all rejects at once and the outer catch of
\* processRealRequests takes over while the other sessions are still running
WClose(k) ==
  /\ SessionMayRun(k)
  /\ workers[k].pc = "close"
  /\ \/ /\ workers' = [workers EXCEPT ![k] = [@ EXCEPT !.pc = "resolved", !.browser = FALSE]]
        /\ UNCHANGED pc
     \/ /\ workers' = [workers EXCEPT ![k] = [@ EXCEPT !.pc = "rejected"]]
        /\ pc' = "finish"
  /\ UNCHANGED <<frame, surface, timer>>
  /\ UNCHANGED <<disk, diskBefore, today, cfg, runs, queueData, heap, todayRequests, i,
                 results, processedCount, outputs, launched, logins, fileWrites>>

RECURSIVE CountSuccess(_, _)
CountSuccess(ws, k) ==
  IF k > Len(ws) THEN 0
  ELSE (IF ws[k].success THEN 1 ELSE 0) + CountSuccess(ws, k + 1)

\* the batch loop going on as soon as one session of the batch has returned
BatchJoin_FirstSettled ==
  /\ pc = "batch"
  /\ \E k \in DOMAIN workers : workers[k].pc = "resolved"
  /\ results' = results \o [k \in DOMAIN workers |-> workers[k].message]
  /\ processedCount' = processedCount
       + (IF Simulated THEN Len(workers) ELSE CountSuccess(workers, 1))
  /\ i' = i + maxConcurrentRequests
  /\ workers' = <<>>
  /\ pc' = IF i + maxConcurrentRequests < Len(todayRequests) THEN "loop" ELSE "finish"
  /\ UNCHANGED <<frame, surface, timer>>
  /\ UNCHANGED <<disk, diskBefore, today, cfg, runs, queueData, heap, todayRequests,
                 outputs, launched, logins, fileWrites>>

\* Promise.all resolved: collect the batch results in request order
BatchJoin ==
  /\ pc = "batch"
  /\ \A k \in DOMAIN workers : workers[k].pc = "resolved"
  /\ results' = results \o [k \in DOMAIN workers |-> workers[k].message]
  /\ processedCount' = processedCount
       + (IF Simulated THEN Len(workers) ELSE CountSuccess(workers, 1))
  /\ i' = i + maxConcurrentRequests
  /\ workers' = <<>>
  /\ pc' = IF i + maxConcurrentRequests < Len(todayRequests) THEN "loop" ELSE "finish"
  /\ UNCHANGED <<frame, surface, timer>>
  /\ UNCHANGED <<disk, diskBefore, today, cfg, runs, queueData, heap, todayRequests,
                 outputs, launched, logins, fileWrites>>

\* ------------------------------------------------------------------------
\* processRealRequests of the sequential variant: one browser and one login
\* for all requests, no per-request catch block
\* ------------------------------------------------------------------------
SeqSession == [req |-> 0, pc |-> "seq", attempt |-> 0, success |-> FALSE,
               browser |-> TRUE, message |-> NoMessage, gate |-> 0]

\* browser = await chromium.launch(...): a failure goes to the outer catch,
\* the finally block has no browser to close
SeqLaunch ==
  /\ pc = "seqlaunch"
  /\ launched' = launched + 1
  /\ \/ /\ workers' = <<SeqSession>>
        /\ pc' = "seqlogin"
     \/ /\ pc' = "finish"
        /\ UNCHANGED workers
  /\ UNCHANGED <<frame, surface, timer>>
  /\ UNCHANGED <<disk, diskBefore, today, cfg, runs, queueData, heap, todayRequests, i,
                 results, processedCount, outputs, logins, fileWrites>>

SeqLogin ==
  /\ pc = "seqlogin"
  /\ logins' = logins + 1
  /\ \/ /\ cfg.creds
        /\ pc' = "seqloop"
        /\ i' = 1
     \/ /\ pc' = "seqclose"
        /\ UNCHANGED i
  /\ UNCHANGED <<frame, surface, timer>>
  /\ UNCHANGED <<disk, diskBefore, today, cfg, runs, queueData, heap, todayRequests,
                 workers, results, processedCount, outputs, launched, fileWrites>>

\* one iteration of the retry loop for todayRequests[i]; an exception of the
\* navigation leaves the request loop through the outer catch
SeqAttempt ==
  /\ pc = "seqloop"
  /\ LET w == workers[1]
         r == todayRequests[i]
         att == w.attempt + 1
     IN \/ /\ pc' = "seqclose"
           /\ UNCHANGED <<heap, workers, results, processedCount, i>>
        \/ \E o \in AttemptOutcomes : \E rows \in SheetsShown(o) :
             LET res == processSingleRequest(cfg.variant, heap[r], o, rows)
             IN /\ heap' = [heap EXCEPT ![r] = res.request]
                /\ IF res.success \/ att >= seqMaxRetries
                   THEN /\ results' = Append(results, res.message)
                        /\ processedCount' = processedCount + (IF res.success THEN 1 ELSE 0)
                        /\ i' = i + 1
                        /\ workers' = <<SeqSession>>
                        /\ pc' = IF i + 1 > Len(todayRequests) THEN "seqclose" ELSE "seqloop"
                   ELSE /\ workers' = <<[w EXCEPT !.attempt = att, !.message = res.message]>>
                        /\ UNCHANGED <<results, processedCount, i, pc>>
  /\ UNCHANGED <<frame, surface, timer>>
  /\ UNCHANGED <<disk, diskBefore, today, cfg, runs, queueData, todayRequests,
                 outputs, launched, logins, fileWrites>>

\* finally { if (browser) await browser.close(); }  An exception of close
\* leaves processRealRequests and processQueue; the catch handler of the
\* script exits with status 1
SeqClose ==
  /\ pc = "seqclose"
  /\ \/ /\ pc' = "finish"
        /\ workers' = <<>>
     \/ /\ pc' = "exit1"
        /\ workers' = <<[SeqSession EXCEPT !.pc = "rejected"]>>
  /\ UNCHANGED <<frame, surface, timer>>
  /\ UNCHANGED <<disk, diskBefore, today, cfg, runs, queueData, heap, todayRequests, i,
                 results, processedCount, outputs, launched, logins, fileWrites>>

\* ------------------------------------------------------------------------
\* The queue mutation and the single write at the end of processing
\* ------------------------------------------------------------------------
\* the cleanup filter of processRealRequests
KeepPending(h, td, r) == h[r].status = "pending"

\* the cleanup filter of simulateProcessingRequests
KeepUnlessResolvedToday(h, td, r) == ~(h[r].playDate = td /\ h[r].status # "pending")

\* the merge putting the due requests behind the earlier content
Finish_DueLast ==
  /\ pc = "finish"
  /\ queueData' =
       [bookingRequests |->
          IF Simulated
          THEN SelectSeq(queueData.bookingRequests,
                         LAMBDA r : KeepUnlessResolvedToday(heap, today, r))
          ELSE SelectSeq(queueData.bookingRequests,
                         LAMBDA r : KeepPending(heap, today, r)),
        processedRequests |-> queueData.processedRequests \o todayRequests]
  /\ disk' = [state |-> "ok", doc |-> Deref(queueData', heap)]
  /\ fileWrites' = fileWrites + 1
  /\ pc' = "report"
  /\ UNCHANGED <<frame, surface, timer>>
  /\ UNCHANGED <<diskBefore, today, cfg, runs, heap, todayRequests, i, workers,
                 results, processedCount, outputs, launched, logins>>

\* queueData.processedRequests = [...todayRequests, ...queueData.processedRequests]
\* and the write of the file, after the cleanup filter of bookingRequests
Finish ==
  /\ pc = "finish"
  /\ queueData' =
       [bookingRequests |->
          IF Simulated
          THEN SelectSeq(queueData.bookingRequests,
                         LAMBDA r : KeepUnlessResolvedToday(heap, today, r))
          ELSE SelectSeq(queueData.bookingRequests,
                         LAMBDA r : KeepPending(heap, today, r)),
        processedRequests |-> todayRequests \o queueData.processedRequests]
  /\ disk' = [state |-> "ok", doc |-> Deref(queueData', heap)]
  /\ fileWrites' = fileWrites + 1
  /\ pc' = "report"
  /\ UNCHANGED <<frame, surface, timer>>
  /\ UNCHANGED <<diskBefore, today, cfg, runs, heap, todayRequests, i, workers,
                 results, processedCount, outputs, launched, logins>>

\* the tail of processQueue
Report ==
  /\ pc = "report"
  /\ outputs' = outputs \o
       <<Out("processed_count", processedCount),
         Out("booking_status", IF processedCount > 0 THEN "success" ELSE "failure"),
         Out("results", results)>>
  /\ pc' = "exit0"
  /\ UNCHANGED <<frame, surface, timer>>
  /\ UNCHANGED <<disk, diskBefore, today, cfg, runs, queueData, heap, todayRequests,
                 i, workers, results, processedCount, launched, logins, fileWrites>>

\* ------------------------------------------------------------------------
\* The scheduler starts the script again, the same day or the next day
\* ------------------------------------------------------------------------
Exited == pc \in {"exit0", "exit1"}

NextRun ==
  /\ Exited
  /\ runs < MaxRuns
  /\ runs' = runs + 1
  /\ today' \in {today, NextDay(today)}
  /\ diskBefore' = disk
  /\ pc' = "start"
  /\ queueData' = EmptyDoc
  /\ heap' = <<>>
  /\ todayRequests' = <<>>
  /\ i' = 0
  /\ workers' = <<>>
  /\ results' = <<>>
  /\ processedCount' = 0
  /\ outputs' = <<>>
  /\ launched' = 0
  /\ logins' = 0
  /\ fileWrites' = 0
  /\ UNCHANGED <<frame, surface, timer>>
  /\ UNCHANGED <<disk, cfg>>

\* ------------------------------------------------------------------------
\* Initial states: the environment of the process and a queue file as the
\* submission surface leaves it (pending requests only)
\* ------------------------------------------------------------------------
FirstToday == <<2025, 3, 1>>

\* play dates of the submitted requests: inside the grace window of the
\* first day, and 30 days after the second day
RunPlayDates == {<<2025, 3, 2>>, <<2025, 4, 1>>}

Configs ==
  {c \in [testMode : BOOLEAN, simulate : BOOLEAN, creds : BOOLEAN,
          variant : {"parallel", "sequential"}, tz : {"UTC"}, scheduled : {FALSE}] :
     c.simulate => (c.variant = "parallel" /\ c.creds)}

SubmittedDocs ==
  {[bookingRequests |-> [k \in 1..n |-> NewRequest(k, f[k], MorningWindow)],
    processedRequests |-> <<>>] :
     n \in 0..MaxRequests, f \in [1..MaxRequests -> RunPlayDates]}

InitDisks ==
  {[state |-> "missing", doc |-> EmptyDoc], [state |-> "corrupt", doc |-> EmptyDoc]}
  \cup {[state |-> "ok", doc |-> d] : d \in SubmittedDocs}

InitWith(c, d, td) ==
  /\ cfg = c
  /\ disk = d
  /\ diskBefore = d
  /\ today = td
  /\ runs = 1
  /\ pc = "start"
  /\ queueData = EmptyDoc
  /\ heap = <<>>
  /\ todayRequests = <<>>
  /\ i = 0
  /\ workers = <<>>
  /\ results = <<>>
  /\ processedCount = 0
  /\ outputs = <<>>
  /\ launched = 0
  /\ logins = 0
  /\ fileWrites = 0

\* the submission page before the Book button is pressed
NoSurface ==
  [stage |-> "idle", fileData |-> [state |-> "none", doc |-> EmptyDoc],
   queueData |-> EmptyDoc, newId |-> 0, count |-> 0, added |-> {}]

\* no call of sleepUntilTimeInZone is under way
NoTimer == [stage |-> "idle"]

\* the frame before any attempt has rendered a tee sheet
NoFrame == [stage |-> "closed", rows |-> <<>>, timeRange |-> <<>>,
            availableTimes |-> <<>>, selected |-> <<>>, previous |-> <<>>]

\* the queue files a configuration starts on.  The queue file of test mode
\* is test-booking-queue.json, which createTestData creates when it is
\* missing: a test run that books for real starts without it, a simulation
\* also on the files of SubmittedDocs.  SIMULATE_BOOKING without TEST_MODE is
\* real processing of the production file; one request shows it.
StartsOn(c, d) ==
  /\ (c.testMode /\ ~c.simulate) => d.state = "missing"
  /\ (c.simulate /\ ~c.testMode) =>
        d.state = "ok" /\ Len(d.doc.bookingRequests) = 1

Init ==
  /\ \E c \in Configs, d \in InitDisks : StartsOn(c, d) /\ InitWith(c, d, FirstToday)
  /\ frame = NoFrame
  /\ surface = NoSurface
  /\ timer = NoTimer

Session ==
  \E k \in 1..maxConcurrentRequests :
    SimRequest(k) \/ WLaunch(k) \/ WLogin(k) \/ WAttempt(k) \/ WClose(k)

Next ==
  \/ CreateTestData
  \/ initializeQueue
  \/ FilterToday
  \/ ShortCircuit
  \/ processRequests
  \/ BatchStart
  \/ Session
  \/ BatchJoin
  \/ SeqLaunch
  \/ SeqLogin
  \/ SeqAttempt
  \/ SeqClose
  \/ Finish
  \/ Report
  \/ NextRun

Spec == Init /\ [][Next]_vars

\* ------------------------------------------------------------------------
\* Specification of the eligibility filter alone: the queue file holds
\* pending requests and requests a simulated run left resolved in
\* bookingRequests; the process runs in UTC or in America/New_York
\* ------------------------------------------------------------------------
MaxFilterRequests == 1

DaysBetween(a, b) ==
  {CivilFromDay(n) : n \in MakeDay(a[1], a[2], a[3])..MakeDay(b[1], b[2], b[3])}

FilterTodays == DaysBetween(<<2025, 2, 24>>, <<2025, 3, 12>>)

FilterPlayDates ==
  DaysBetween(<<2025, 2, 23>>, <<2025, 3, 16>>)
  \cup DaysBetween(<<2025, 3, 25>>, <<2025, 4, 12>>)

SimResolved(id, pd) ==
  [NewRequest(id, pd, MorningWindow) EXCEPT !.status = "success", !.processedDate = "set",
                             !.bookedTime = "09:30", !.confirmationNumber = "SIM"]

FilterDocs ==
  {[bookingRequests |-> [k \in 1..n |-> IF g[k] THEN NewRequest(k, f[k], MorningWindow)
                                        ELSE SimResolved(k, f[k])],
    processedRequests |-> <<>>] :
     n \in 1..MaxFilterRequests,
     f \in [1..MaxFilterRequests -> FilterPlayDates],
     g \in [1..MaxFilterRequests -> BOOLEAN]}

InitFilter ==
  \E tz \in {"UTC", "America/New_York"}, td \in FilterTodays, d \in FilterDocs :
    /\ InitWith([testMode |-> FALSE, simulate |-> FALSE, creds |-> TRUE,
                 variant |-> "parallel", tz |-> tz, scheduled |-> FALSE],
                [state |-> "ok", doc |-> d], td)
    /\ frame = NoFrame
    /\ surface = NoSurface
    /\ timer = NoTimer

NextFilter == CreateTestData \/ initializeQueue \/ FilterToday

SpecFilter == InitFilter /\ [][NextFilter]_vars

\* ------------------------------------------------------------------------
\* Specification of the Slot Finder and of the slot selection alone: a tee
\* sheet of up to MaxRows rows is rendered for a request window, the slots
\* are collected and one is selected; a retry renders the same sheet again.
\* The script is a current one (latest slot) or the earlier one of
\* part_001 lines 1206-1682 (findAvailableTeeSlots, earliest slot).
\* ------------------------------------------------------------------------
MaxRows == 3

RowTimes ==
  {[hour |-> 8, minute |-> 30, ampm |-> "AM"], [hour |-> 9, minute |-> 0, ampm |-> "AM"],
   [hour |-> 9, minute |-> 30, ampm |-> "AM"], [hour |-> 10, minute |-> 45, ampm |-> "AM"],
   [hour |-> 11, minute |-> 0, ampm |-> "AM"], [hour |-> 1, minute |-> 0, ampm |-> "PM"]}

RowKinds ==
  {[unavailable |-> FALSE, spots |-> 4], [unavailable |-> FALSE, spots |-> 3],
   [unavailable |-> TRUE, spots |-> 4]}

Rows ==
  {[unavailable |-> kd.unavailable, spots |-> kd.spots, hour |-> t.hour,
    minute |-> t.minute, ampm |-> t.ampm] : kd \in RowKinds, t \in RowTimes}

TeeSheets == UNION {[1..n -> Rows] : n \in 0..MaxRows}

InitSlots ==
  /\ \E v \in {"parallel", "earlier"} :
       InitWith([testMode |-> FALSE, simulate |-> FALSE, creds |-> TRUE,
                 variant |-> v, tz |-> "UTC", scheduled |-> FALSE],
                [state |-> "missing", doc |-> EmptyDoc], FirstToday)
  /\ \E rows \in TeeSheets, w \in {MorningWindow, MiddayWindow} :
       /\ cfg.variant = "earlier" => w = MorningWindow
       /\ frame = [NoFrame EXCEPT !.stage = "rendered", !.rows = rows, !.timeRange = w]
  /\ surface = NoSurface
  /\ timer = NoTimer

processVars == <<disk, diskBefore, today, cfg, runs, pc, queueData, heap, todayRequests,
                 i, workers, results, processedCount, outputs, launched, logins,
                 fileWrites, surface, timer>>

\* const availableTimes = await findAvailableTeeSlots[InFrame](..., request.timeRange)
FindSlots ==
  /\ frame.stage = "rendered"
  /\ frame' = [frame EXCEPT
       !.stage = "found",
       !.availableTimes =
          IF cfg.variant = "earlier"
          THEN findAvailableTeeSlots(frame.rows, frame.timeRange, 1, <<>>)
          ELSE findAvailableTeeSlotsInFrame(frame.rows, frame.timeRange, 1, <<>>)]
  /\ UNCHANGED processVars

\* if (availableTimes.length === 0) { ... failed ... }
NoAvailableTimes ==
  /\ frame.stage = "found"
  /\ frame.availableTimes = <<>>
  /\ frame' = [frame EXCEPT !.stage = "failed"]
  /\ UNCHANGED processVars

\* sort, (reverse,) availableTimes[0]
SelectSlot ==
  /\ frame.stage = "found"
  /\ frame.availableTimes # <<>>
  /\ frame' = [frame EXCEPT !.stage = "selected",
                            !.selected = <<selectedSlot(cfg.variant, frame.availableTimes)>>]
  /\ UNCHANGED processVars

\* the next attempt of the retry loop finds the same tee sheet
RenderAgain ==
  /\ frame.stage = "selected"
  /\ frame.previous = <<>>
  /\ frame' = [frame EXCEPT !.stage = "rendered", !.availableTimes = <<>>,
                            !.selected = <<>>, !.previous = frame.selected]
  /\ UNCHANGED processVars

NextSlots == FindSlots \/ NoAvailableTimes \/ SelectSlot \/ RenderAgain

SpecSlots == InitSlots /\ [][NextSlots]_vars

\* ------------------------------------------------------------------------
\* Specification of the booking sessions of one invocation of the current
\* batch-parallel script: real processing of a queue whose requests are all
\* due, one of them possibly with a playDate that lacks its day ('2025-03',
\* which the string comparison of the filter places in the 3-day window of
\* 2025-02-27), in a scheduled or an unscheduled run
\* ------------------------------------------------------------------------
MaxSessionRequests == 2

SessionToday == <<2025, 2, 27>>

SessionPlayDates == {<<2025, 2, 28>>, <<2025, 3>>}

SessionDocs ==
  {[bookingRequests |-> [k \in 1..n |-> NewRequest(k, f[k], LongWindow)],
    processedRequests |-> <<>>] :
     n \in 1..MaxSessionRequests, f \in [1..MaxSessionRequests -> SessionPlayDates]}

InitSession ==
  /\ \E creds \in BOOLEAN, scheduled \in BOOLEAN, d \in SessionDocs :
       InitWith([testMode |-> FALSE, simulate |-> FALSE, creds |-> creds,
                 variant |-> "parallel", tz |-> "UTC", scheduled |-> scheduled],
                [state |-> "ok", doc |-> d], SessionToday)
  /\ frame = NoFrame
  /\ surface = NoSurface
  /\ timer = NoTimer

NextSession ==
  \/ CreateTestData
  \/ initializeQueue
  \/ FilterToday
  \/ processRequests
  \/ BatchStart
  \/ \E k \in 1..maxConcurrentRequests : WLaunch(k) \/ WLogin(k) \/ WAttempt(k) \/ WClose(k)
  \/ BatchJoin
  \/ Finish
  \/ Report

SpecSession == InitSession /\ [][NextSession]_vars

\* ------------------------------------------------------------------------
\* Specification of the batch loop: MaxBatchRequests due requests, more than
\* one batch holds
\* ------------------------------------------------------------------------
MaxBatchRequests == 4

InitBatch ==
  /\ InitWith([testMode |-> FALSE, simulate |-> FALSE, creds |-> TRUE,
               variant |-> "parallel", tz |-> "UTC", scheduled |-> FALSE],
              [state |-> "ok",
               doc |-> [bookingRequests |->
                          [k \in 1..MaxBatchRequests |->
                             NewRequest(k, <<2025, 2, 28>>, MorningWindow)],
                        processedRequests |-> <<>>]],
              SessionToday)
  /\ frame = NoFrame
  /\ surface = NoSurface
  /\ timer = NoTimer

SpecBatch == InitBatch /\ [][NextSession]_vars

\* ------------------------------------------------------------------------
\* filterTodayRequests applied twice to the document initializeQueue loaded
\* ------------------------------------------------------------------------
MaxRefilterRequests == 2

RefilterTodays == {<<2025, 3, 1>>, <<2025, 3, 8>>}

\* of 2025-03-01: due today, due in 30 days (and, of 2025-03-08, missed the
\* day before), due neither day
RefilterPlayDates == {<<2025, 3, 1>>, <<2025, 3, 31>>, <<2025, 3, 20>>}

RefilterDocs ==
  {[bookingRequests |-> [k \in 1..n |-> IF g[k] THEN NewRequest(k, f[k], MorningWindow)
                                        ELSE SimResolved(k, f[k])],
    processedRequests |-> <<>>] :
     n \in 0..MaxRefilterRequests,
     f \in [1..MaxRefilterRequests -> RefilterPlayDates],
     g \in [1..MaxRefilterRequests -> BOOLEAN]}

InitRefilter ==
  \E tz \in {"UTC", "America/New_York"}, td \in RefilterTodays, d \in RefilterDocs :
    /\ InitWith([testMode |-> FALSE, simulate |-> FALSE, creds |-> TRUE,
                 variant |-> "parallel", tz |-> tz, scheduled |-> FALSE],
                [state |-> "ok", doc |-> d], td)
    /\ frame = NoFrame
    /\ surface = NoSurface
    /\ timer = NoTimer

\* a second call of filterTodayRequests(queueData) the same day
FilterAgain ==
  /\ pc = "filtered"
  /\ todayRequests' = filterTodayRequests(queueData, heap, cfg.tz, today)
  /\ pc' = "refiltered"
  /\ UNCHANGED <<frame, surface, timer>>
  /\ UNCHANGED <<disk, diskBefore, today, cfg, runs, queueData, heap, i, workers,
                 results, processedCount, outputs, launched, logins, fileWrites>>

NextRefilter == CreateTestData \/ initializeQueue \/ FilterToday \/ FilterAgain

SpecRefilter == InitRefilter /\ [][NextRefilter]_vars

\* ------------------------------------------------------------------------
\* The submission page (docs/script.js) and a run working on the same
\* booking-queue.json.  The page reads the file through the contents API,
\* appends its request and sends the whole document back with the sha of the
\* file it read; the API refuses a PUT whose sha is not that of the file as
\* it is now (a file that exists and no sha, or another sha).  The sha is the
\* hash of the content: it matches iff the file is as the page read it.
\* ------------------------------------------------------------------------
MaxSubmissions == 1          \* presses of the Book button
MaxSubmitRequests == 1       \* requests in the queue file at the start

SubmitPlayDates == {<<2025, 2, 28>>, <<2025, 5, 1>>}

\* the time range of the form: a morning window, and one that ends before it
\* starts
SubmitWindows == {MorningWindow, [start |-> <<11, 0>>, end |-> <<9, 0>>]}

\* parseInt(hh) * 60 + parseInt(mm)
TimeInMinutes(t) == t[1] * 60 + t[2]

\* bookTeeTime up to the PUT: validation, GET of the file, JSON.parse, push
\* of the new request
bookTeeTime ==
  /\ surface.stage # "put"
  /\ surface.count < MaxSubmissions
  /\ \E date \in SubmitPlayDates, timeRange \in SubmitWindows :
       /\ TimeInMinutes(timeRange.start) < TimeInMinutes(timeRange.end)
       /\ LET requestId == 100 + surface.count
              newRequest == [NewRequest(requestId, date, timeRange)
                               EXCEPT !.requestedBy = Absent]
              doc == IF disk.state = "missing" THEN EmptyDoc ELSE disk.doc
          IN surface' =
               IF disk.state = "corrupt"
               THEN [surface EXCEPT !.stage = "error", !.count = @ + 1]
               ELSE [surface EXCEPT
                       !.stage = "put", !.count = @ + 1, !.fileData = disk,
                       !.newId = requestId,
                       !.queueData =
                          [doc EXCEPT !.bookingRequests = Append(@, newRequest)]]
  /\ UNCHANGED <<disk, diskBefore, today, cfg, runs, pc, queueData, heap, todayRequests,
                 i, workers, results, processedCount, outputs, launched, logins,
                 fileWrites, frame, timer>>

\* the PUT of bookTeeTime and its response
updateResponse ==
  /\ surface.stage = "put"
  /\ IF disk = surface.fileData
     THEN /\ disk' = [state |-> "ok", doc |-> surface.queueData]
          /\ surface' = [surface EXCEPT !.stage = "added",
                                        !.added = @ \cup {surface.newId}]
     ELSE /\ surface' = [surface EXCEPT !.stage = "error"]
          /\ UNCHANGED disk
  /\ UNCHANGED <<diskBefore, today, cfg, runs, pc, queueData, heap, todayRequests,
                 i, workers, results, processedCount, outputs, launched, logins,
                 fileWrites, frame, timer>>

SubmitDocs ==
  {[bookingRequests |-> [k \in 1..n |-> NewRequest(k, <<2025, 2, 28>>, MorningWindow)],
    processedRequests |-> <<>>] : n \in 0..MaxSubmitRequests}

InitSubmit ==
  /\ \E d \in {[state |-> "missing", doc |-> EmptyDoc],
               [state |-> "corrupt", doc |-> EmptyDoc]}
              \cup {[state |-> "ok", doc |-> x] : x \in SubmitDocs} :
       InitWith([testMode |-> FALSE, simulate |-> FALSE, creds |-> TRUE,
                 variant |-> "parallel", tz |-> "UTC", scheduled |-> FALSE],
                d, SessionToday)
  /\ frame = NoFrame
  /\ surface = NoSurface
  /\ timer = NoTimer

NextSubmit ==
  \/ NextSession
  \/ ShortCircuit
  \/ bookTeeTime
  \/ updateResponse

SpecSubmit == InitSubmit /\ [][NextSubmit]_vars

\* ------------------------------------------------------------------------
\* Timing Gate: sleepUntilTimeInZone(targetHour24, targetMinute, timeZoneIANA).
\* An instant is a number of minutes since 2025-01-01T00:00Z.
\* ------------------------------------------------------------------------
MaxGateSamples == 96       \* clock readings sampled in each sampling window

\* Date.UTC(year, month - 1, day, hour, minute, 0, 0)
DateUTC(y, m, d, hh, mm) == (MakeDay(y, m, d) * 24 + hh) * 60 + mm

\* the zones of the tz database the model knows: one with daylight saving
\* time, one with a constant offset that is not a whole hour, one at offset 0
KnownZones == {"America/New_York", "Asia/Kolkata", "UTC"}

\* daylight saving time of America/New_York in 2025: from 2025-03-09T07:00Z
\* to 2025-11-02T06:00Z
NewYorkDstStart == DateUTC(2025, 3, 9, 7, 0)

NewYorkDstEnd == DateUTC(2025, 11, 2, 6, 0)

\* offset of the zone from GMT at instant t, in minutes
GmtOffsetMinutes(timeZoneIANA, t) ==
  IF timeZoneIANA = "America/New_York"
  THEN (IF t < NewYorkDstStart \/ t >= NewYorkDstEnd THEN -300 ELSE -240)
  ELSE IF timeZoneIANA = "Asia/Kolkata" THEN 330
  ELSE 0

\* the timeZoneName part of Intl.DateTimeFormat with timeZoneName 'longOffset':
\* 'GMT-05:00' is <<"GMT", "-", 5, 0>>, and offset zero is plain 'GMT'
longOffset(timeZoneIANA, t) ==
  LET off == GmtOffsetMinutes(timeZoneIANA, t)
      a == IF off < 0 THEN -off ELSE off
  IN IF off = 0 THEN <<"GMT">>
     ELSE <<"GMT", IF off < 0 THEN "-" ELSE "+", a \div 60, a % 60>>

\* offsetString.match(/GMT([+-])(\d{1,2})(?::(\d{2}))?/) and the arithmetic on
\* its groups; <<>> when the string does not match
totalOffsetMinutes(offsetString) ==
  IF Len(offsetString) < 3 THEN <<>>
  ELSE LET offsetSign == IF offsetString[2] = "+" THEN 1 ELSE -1
           offsetHours == offsetString[3]
           offsetRuleMinutes == IF Len(offsetString) >= 4 THEN offsetString[4] ELSE 0
       IN <<offsetSign * (offsetHours * 60 + offsetRuleMinutes)>>

\* ymdFormatter.formatToParts(t): year, month and day of t in the zone
DatePartsInZone(timeZoneIANA, t) ==
  CivilFromDay((t + GmtOffsetMinutes(timeZoneIANA, t)) \div 1440)

\* the target instant of a date of the zone: Date.UTC of the date and the
\* target time, then setUTCMinutes(getUTCMinutes() - totalOffsetMinutes)
targetDateAttempt(parts, targetHour24, targetMinute, offset) ==
  DateUTC(parts[1], parts[2], parts[3], targetHour24, targetMinute) - offset

Thrown(message) == [error |-> message, delay |-> -1, target |-> -1]

\* calculateDelay without the test of a target that has passed
calculateDelay_NoRollover(now, targetHour24, targetMinute, timeZoneIANA) ==
  IF timeZoneIANA \notin KnownZones THEN Thrown("RangeError: Invalid time zone")
  ELSE IF totalOffsetMinutes(longOffset(timeZoneIANA, now)) = <<>>
  THEN Thrown("Could not parse offset string")
  ELSE LET offset == totalOffsetMinutes(longOffset(timeZoneIANA, now))[1]
           today_ == targetDateAttempt(DatePartsInZone(timeZoneIANA, now),
                                       targetHour24, targetMinute, offset)
           msUntilTarget == today_ - now
       IN [error |-> "", delay |-> IF msUntilTarget > 0 THEN msUntilTarget ELSE 0,
           target |-> today_]

\* calculateDelay: the delay until the target time, or the exception the
\* catch block turns into a rejection of the promise.  The offset is read
\* once, at `now`; the date of the next day is read from the formatter, which
\* applies the offset the zone has at nextDayCandidate
calculateDelay(now, targetHour24, targetMinute, timeZoneIANA) ==
  IF timeZoneIANA \notin KnownZones THEN Thrown("RangeError: Invalid time zone")
  ELSE IF totalOffsetMinutes(longOffset(timeZoneIANA, now)) = <<>>
  THEN Thrown("Could not parse offset string")
  ELSE LET offset == totalOffsetMinutes(longOffset(timeZoneIANA, now))[1]
           today_ == targetDateAttempt(DatePartsInZone(timeZoneIANA, now),
                                       targetHour24, targetMinute, offset)
           nextDayCandidate == today_ + 1440
           target == IF today_ <= now
                     THEN targetDateAttempt(DatePartsInZone(timeZoneIANA, nextDayCandidate),
                                            targetHour24, targetMinute, offset)
                     ELSE today_
           msUntilTarget == target - now
       IN [error |-> "", delay |-> IF msUntilTarget > 0 THEN msUntilTarget ELSE 0,
           target |-> target]

\* the clock readings of the model: every half hour, at 7 and 37 minutes past
\* the hour, from noon of 2025-03-08 and from noon of 2025-11-01 (the two
\* changes of the New York offset lie inside the windows)
GateNows ==
  {DateUTC(2025, 3, 8, 12, 7) + 30 * k : k \in 0..(MaxGateSamples - 1)}
  \cup {DateUTC(2025, 11, 1, 12, 7) + 30 * k : k \in 0..(MaxGateSamples - 1)}

\* 23:07 is the target of the one call in the script; 00:30 is a time of day
\* that exists twice on the day the clocks go back
GateTargets == {<<23, 7>>, <<0, 30>>}

GateZones == KnownZones \cup {"Mars/Olympus_Mons"}

\* a call of sleepUntilTimeInZone about to run its executor
InitGate ==
  /\ InitWith([testMode |-> FALSE, simulate |-> FALSE, creds |-> TRUE,
               variant |-> "parallel", tz |-> "UTC", scheduled |-> TRUE],
              [state |-> "missing", doc |-> EmptyDoc], FirstToday)
  /\ frame = NoFrame
  /\ surface = NoSurface
  /\ \E now \in GateNows, t \in GateTargets, z \in GateZones :
       timer = [stage |-> "called", now |-> now, targetHour24 |-> t[1],
                targetMinute |-> t[2], timeZoneIANA |-> z, delay |-> -1,
                target |-> -1, error |-> ""]

gateVars == <<disk, diskBefore, today, cfg, runs, pc, queueData, heap, todayRequests,
              i, workers, results, processedCount, outputs, launched, logins,
              fileWrites, frame, surface>>

\* the executor of the promise: calculateDelay, then reject, resolve at once,
\* or setTimeout
sleepUntilTimeInZone ==
  /\ timer.stage = "called"
  /\ LET d == calculateDelay(timer.now, timer.targetHour24, timer.targetMinute,
                             timer.timeZoneIANA)
     IN timer' = [timer EXCEPT
                    !.stage = IF d.error # "" THEN "rejected"
                              ELSE IF d.delay <= 0 THEN "resolved" ELSE "waiting",
                    !.delay = d.delay, !.target = d.target, !.error = d.error]
  /\ UNCHANGED gateVars

\* the callback of setTimeout(..., delay)
TimeoutFires ==
  /\ timer.stage = "waiting"
  /\ timer' = [timer EXCEPT !.stage = "resolved", !.now = timer.now + timer.delay]
  /\ UNCHANGED gateVars

NextGate == sleepUntilTimeInZone \/ TimeoutFires

SpecGate == InitGate /\ [][NextGate]_vars

\* ------------------------------------------------------------------------
\* One invocation of the batch-parallel script against a booking site whose
\* behaviour is fixed beforehand: for every request, what its session meets
\* (a launch or a login that throws, or the outcomes of its attempts in
\* turn) and whether the close of its browser rejects.  The sessions of a
\* batch still interleave freely.
\* ------------------------------------------------------------------------
MaxPlannedRequests == 2

\* what the session of a request meets, step by step
PlannedSteps ==
  {<<"launchThrows">>, <<"loginThrows">>, <<"throws">>, <<"booked">>,
   <<"noTimes", "booked">>, <<"noTimes", "noTimes", "noTimes">>}

SessionPlans ==
  {p \in [steps : PlannedSteps, close : {"closes", "rejects"}] :
     p.steps = <<"launchThrows">> => p.close = "closes"}

PlanOf(k) == cfg.plan[workers[k].req]

InitPlanned ==
  /\ \E n \in 1..MaxPlannedRequests : \E plan \in [1..n -> SessionPlans] :
       InitWith([testMode |-> FALSE, simulate |-> FALSE, creds |-> TRUE,
                 variant |-> "parallel", tz |-> "UTC", scheduled |-> FALSE,
                 plan |-> plan],
                [state |-> "ok",
                 doc |-> [bookingRequests |->
                            [k \in 1..n |-> NewRequest(k, <<2025, 2, 28>>, LongWindow)],
                          processedRequests |-> <<>>]],
                SessionToday)
  /\ frame = NoFrame
  /\ surface = NoSurface
  /\ timer = NoTimer

\* chromium.launch of session k, throwing as the site's behaviour has it
PlannedLaunch(k) ==
  /\ WLaunch(k)
  /\ (workers'[k].pc = "resolved") <=> (PlanOf(k).steps = <<"launchThrows">>)

PlannedLogin(k) ==
  /\ WLogin(k)
  /\ (workers'[k].pc = "close") <=> (PlanOf(k).steps = <<"loginThrows">>)

\* iteration attempt + 1 of the retry loop of session k
PlannedAttempt(k) ==
  /\ WAttempt(k)
  /\ LET planned == PlanOf(k).steps[workers[k].attempt + 1]
     IN IF planned = "throws"
        THEN workers'[k].pc = "close" /\ workers'[k].message.kind = "error"
        ELSE workers'[k].message.kind = planned

PlannedClose(k) ==
  /\ WClose(k)
  /\ (workers'[k].pc = "rejected") <=> (PlanOf(k).close = "rejects")

NextPlanned ==
  \/ CreateTestData
  \/ initializeQueue
  \/ FilterToday
  \/ processRequests
  \/ BatchStart
  \/ \E k \in 1..maxConcurrentRequests :
       PlannedLaunch(k) \/ PlannedLogin(k) \/ PlannedAttempt(k) \/ PlannedClose(k)
  \/ BatchJoin
  \/ Finish
  \/ Report

SpecPlanned == InitPlanned /\ [][NextPlanned]_vars

\* ------------------------------------------------------------------------
\* The script run once on every calendar day (the schedule of the workflow),
\* every run completing normally: no exception leaves a session, so the outer
\* catch of processRealRequests never fires.  The queue file holds requests
\* submitted on the first day for that day and for the day after.  Every
\* step of a run is taken once it can be taken (the steps are awaits of one
\* event loop) and the scheduler starts the run of the next day.
\* ------------------------------------------------------------------------
MaxDailyRequests == 2

DailyPlayDates == {SessionToday, NextDay(SessionToday)}

DailyDocs ==
  {[bookingRequests |-> [k \in 1..n |-> NewRequest(k, f[k], LongWindow)],
    processedRequests |-> <<>>] :
     n \in 1..MaxDailyRequests, f \in [1..MaxDailyRequests -> DailyPlayDates]}

InitDaily ==
  /\ \E sim \in BOOLEAN, d \in DailyDocs :
       InitWith([testMode |-> sim, simulate |-> sim, creds |-> TRUE,
                 variant |-> "parallel", tz |-> "UTC", scheduled |-> FALSE],
                [state |-> "ok", doc |-> d], SessionToday)
  /\ frame = NoFrame
  /\ surface = NoSurface
  /\ timer = NoTimer

\* the finally block of a session whose browser closes
CloseReturns(k) == WClose(k) /\ workers'[k].pc = "resolved"

\* the run of the next calendar day
RunNextDay == NextRun /\ today' = NextDay(today)

NextDaily ==
  \/ CreateTestData
  \/ initializeQueue
  \/ FilterToday
  \/ ShortCircuit
  \/ processRequests
  \/ BatchStart
  \/ \E k \in 1..maxConcurrentRequests :
       SimRequest(k) \/ WLaunch(k) \/ WLogin(k) \/ WAttempt(k) \/ CloseReturns(k)
  \/ BatchJoin
  \/ Finish
  \/ Report
  \/ RunNextDay

SpecDaily == InitDaily /\ [][NextDaily]_vars /\ WF_vars(NextDaily)

\* ------------------------------------------------------------------------
\* Runs on a queue file that holds requests whose play date has passed (the
\* page accepts any date, and a run cut short leaves requests pending) next
\* to requests that are due
\* ------------------------------------------------------------------------
MaxStaleRequests == 2

\* the day before the first run, and the day after it
StalePlayDates == {<<2025, 2, 26>>, <<2025, 2, 28>>}

StaleDocs ==
  {[bookingRequests |-> [k \in 1..n |-> NewRequest(k, f[k], LongWindow)],
    processedRequests |-> <<>>] :
     n \in 1..MaxStaleRequests, f \in [1..MaxStaleRequests -> StalePlayDates]}

\* real processing by either script, and the simulation
StaleConfigs ==
  {c \in Configs : c.creds /\ c.testMode = c.simulate}

InitStale ==
  /\ \E c \in StaleConfigs, d \in StaleDocs :
       InitWith(c, [state |-> "ok", doc |-> d], SessionToday)
  /\ frame = NoFrame
  /\ surface = NoSurface
  /\ timer = NoTimer

SpecStale == InitStale /\ [][Next]_vars

\* ------------------------------------------------------------------------
\* Properties
\* ------------------------------------------------------------------------
Ids(s) == {s[k].id : k \in DOMAIN s}

DocIds(doc) == Ids(doc.bookingRequests) \cup Ids(doc.processedRequests)

Entries(doc) ==
  {doc.bookingRequests[k] : k \in DOMAIN doc.bookingRequests}
  \cup {doc.processedRequests[k] : k \in DOMAIN doc.processedRequests}

ResolvedIds(doc) == {e.id : e \in {x \in Entries(doc) : x.status # "pending"}}

PendingSet(doc) ==
  {doc.bookingRequests[k].id :
     k \in {j \in DOMAIN doc.bookingRequests : doc.bookingRequests[j].status = "pending"}}

\* the day number of a 'YYYY-MM-DD' date
DayOf(d) == MakeDay(d[1], d[2], d[3])

\* the outer catch block of processRealRequests has run: the request loop
\* of the sequential variant was left early, or a session of a batch rejected
OuterCatchFired ==
  /\ Len(todayRequests) > 0
  /\ IF cfg.variant = "sequential"
     THEN pc \in {"seqclose", "finish", "report", "exit0", "exit1"}
          /\ i <= Len(todayRequests)
     ELSE \E k \in DOMAIN workers : workers[k].pc = "rejected"

\* an exception was raised outside every per-request try block
FatalRaised == OuterCatchFired \/ pc = "exit1"

\* the values of the last three setOutput calls
LastOutput(name) ==
  LET idx == {k \in DOMAIN outputs : outputs[k].name = name}
  IN outputs[CHOOSE k \in idx : \A j \in idx : j <= k].value

Emitted(name, value) ==
  \E k \in DOMAIN outputs : outputs[k].name = name /\ outputs[k].value = value

\* C1: after a run, every request id of the queue document the run started
\* from is in exactly one of bookingRequests and processedRequests.
C1_ExactlyOneList ==
  Exited =>
    \A id \in DocIds(diskBefore.doc) :
      (id \in Ids(disk.doc.bookingRequests)) # (id \in Ids(disk.doc.processedRequests))

\* C2: every entry of processedRequests in the queue file is resolved
\* (status other than pending) and carries a processedDate.
C2_ProcessedAreResolved ==
  \A k \in DOMAIN disk.doc.processedRequests :
    /\ disk.doc.processedRequests[k].status # "pending"
    /\ disk.doc.processedRequests[k].processedDate # Absent

\* C3: after a run that processed at least one due request, bookingRequests
\* in the queue file holds pending requests only.
C3_OnlyPendingLeft ==
  (pc = "exit0" /\ Len(todayRequests) > 0) =>
    \A k \in DOMAIN disk.doc.bookingRequests :
      disk.doc.bookingRequests[k].status = "pending"

\* C4: a request that is resolved in the queue file stays resolved and out
\* of the pending set in every later state of the file, and no run selects
\* it in filterTodayRequests.
C4_ResolvedNeverPendingAgain ==
  [][/\ \A id \in ResolvedIds(disk.doc) :
          id \in ResolvedIds(disk'.doc) /\ id \notin PendingSet(disk'.doc)
     /\ (pc' = "filtered" =>
           \A k \in DOMAIN todayRequests' :
             /\ heap'[todayRequests'[k]].status = "pending"
             /\ heap'[todayRequests'[k]].id \notin ResolvedIds(disk'.doc))]_vars

\* C4 witness: the second run has filtered a queue that holds a resolved
\* request whose playDate lies in the eligibility window.
C4_Witness ==
  /\ runs = 2
  /\ pc = "filtered"
  /\ \E k \in DOMAIN queueData.bookingRequests :
       /\ heap[queueData.bookingRequests[k]].status # "pending"
       /\ IsDue([heap[queueData.bookingRequests[k]] EXCEPT !.status = "pending"],
                cfg.tz, today)

\* C5: filterTodayRequests selects a request iff it is pending and its
\* playDate is today + 30 days or lies between today and today + 3 days.
C5_FilterWindow ==
  pc = "filtered" =>
    \A k \in DOMAIN queueData.bookingRequests :
      LET r == heap[queueData.bookingRequests[k]]
          selected == \E j \in DOMAIN todayRequests :
                        todayRequests[j] = queueData.bookingRequests[k]
      IN selected <=>
           /\ r.status = "pending"
           /\ \/ DayOf(r.playDate) = DayOf(today) + 30
              \/ /\ DayOf(today) <= DayOf(r.playDate)
                 /\ DayOf(r.playDate) <= DayOf(today) + 3

\* the same statement for a process whose time zone is UTC
C5_FilterWindowInUtc == cfg.tz = "UTC" => C5_FilterWindow

\* the queue file is as processQueue found it when it loaded it: as the run
\* started, or as createTestData created it
QueueFileNotWritten ==
  \/ disk = diskBefore
  \/ /\ cfg.testMode
     /\ diskBefore.state = "missing"
     /\ disk = [state |-> "ok", doc |-> TestQueue(today)]

\* the run took the short-circuit of processQueue
ShortCircuited == pc = "exit0" /\ Len(todayRequests) = 0

\* C6 (as stated): when filterTodayRequests returns no request, no browser is
\* launched, no login is attempted, the queue file is not written and the
\* run reports processed_count = 0 with booking_status = success.
C6_ShortCircuitWritesNothing ==
  ShortCircuited =>
    /\ launched = 0 /\ logins = 0
    /\ fileWrites = 0 /\ disk = diskBefore
    /\ LastOutput("processed_count") = 0
    /\ LastOutput("booking_status") = "success"

\* C6 (amended): as above, except that the queue file is not written after
\* it was loaded: the one write such a run can make is initializeQueue
\* creating a missing queue file as an empty document.
C6_ShortCircuitWritesNothingAfterLoad ==
  ShortCircuited =>
    /\ launched = 0 /\ logins = 0 /\ workers = <<>>
    /\ \/ fileWrites = 0 /\ disk = diskBefore
       \/ /\ fileWrites = 1
          /\ diskBefore.state = "missing"
          /\ disk = [state |-> "ok", doc |-> EmptyDoc]
    /\ LastOutput("processed_count") = 0
    /\ LastOutput("booking_status") = "success"

\* C6 witness: a queue with requests, none of them due, was short-circuited.
C6_Witness ==
  /\ ShortCircuited
  /\ disk.state = "ok"
  /\ Len(disk.doc.bookingRequests) > 0
  /\ disk = diskBefore

\* C7: a run that finds no queue file works on the empty document and
\* reports processed_count = 0 and booking_status = success, and emits no
\* booking_status = failure.
C7_MissingFileReportsSuccess ==
  (pc = "exit0" /\ diskBefore.state = "missing" /\ ~cfg.testMode) =>
    /\ queueData = EmptyDoc
    /\ LastOutput("processed_count") = 0
    /\ LastOutput("booking_status") = "success"
    /\ ~Emitted("booking_status", "failure")

\* C8: a run whose login finds no credentials is aborted as a fatal error
\* and leaves the queue file as it was.
C8_NoCredentialsNoWrite ==
  (Exited /\ ~cfg.creds /\ logins > 0) => (pc = "exit1" /\ QueueFileNotWritten)

\* C9: an exception raised outside the per-request try blocks ends the
\* process with a nonzero status and leaves the queue file as it was.
C9_FatalErrorPersistsNothing ==
  (Exited /\ FatalRaised) => (pc = "exit1" /\ QueueFileNotWritten)

\* C10: a run that finds a queue file it cannot parse exits nonzero without
\* processing any request and without touching the file.
C10_CorruptQueueFailsLoudly ==
  diskBefore.state = "corrupt" =>
    /\ pc \in {"start", "init", "exit1"}
    /\ disk = diskBefore
    /\ fileWrites = 0
    /\ Len(todayRequests) = 0
    /\ launched = 0 /\ logins = 0
    /\ outputs = <<>>

\* C10 witness: the run on the unparsable file has exited with status 1.
C10_Witness == pc = "exit1" /\ diskBefore.state = "corrupt" /\ disk.state = "corrupt"

\* ------------------------------------------------------------------------
\* Slot Finder
\* ------------------------------------------------------------------------
\* minutes of the day of the time a row displays, by the 12-hour clock
MinuteOfDay(row) ==
  ((row.hour % 12) + (IF row.ampm = "PM" THEN 12 ELSE 0)) * 60 + row.minute

\* "HH:MM" of a minute of the day
TimeText(t) == padStart2(t \div 60) \o ":" \o padStart2(t % 60)

WindowMinutes(w) == [start |-> w.start[1] * 60 + w.start[2], end |-> w.end[1] * 60 + w.end[2]]

Qualifies(row, w) ==
  /\ ~row.unavailable
  /\ row.spots = 4
  /\ WindowMinutes(w).start <= MinuteOfDay(row)
  /\ MinuteOfDay(row) <= WindowMinutes(w).end

\* C19: findAvailableTeeSlotsInFrame returns a rendered slot if and only if
\* the row is not marked unavailable, displays capacity 4 and its time lies
\* in the window, both ends included: the slots returned are the qualifying
\* rows, in the order of the sheet, each with the time of its row.
C19_SlotFinderReturnsQualifying ==
  (frame.stage = "found" /\ cfg.variant # "earlier") =>
    LET qualifying == SelectSeq(frame.rows, LAMBDA row : Qualifies(row, frame.timeRange))
    IN /\ Len(frame.availableTimes) = Len(qualifying)
       /\ \A k \in DOMAIN qualifying :
            frame.availableTimes[k].time = TimeText(MinuteOfDay(qualifying[k]))

RowAt(h, m) == [unavailable |-> FALSE, spots |-> 4, hour |-> h, minute |-> m, ampm |-> "AM"]


\* the scenario of the window 09:00-11:00 with slots 08:30, 09:30, 10:45,
\* and a sheet with slots at exactly 09:00 and 11:00
C19_Witness ==
  /\ frame.stage = "found" /\ cfg.variant # "earlier"
  /\ frame.timeRange = MorningWindow
  /\ \/ /\ frame.rows = <<RowAt(8, 30), RowAt(9, 30), RowAt(10, 45)>>
        /\ [k \in DOMAIN frame.availableTimes |-> frame.availableTimes[k].time]
             = <<"09:30", "10:45">>
     \/ /\ frame.rows = <<RowAt(9, 0), RowAt(11, 0)>>
        /\ Len(frame.availableTimes) = 2

\* C20: the selection is deterministic and always takes the latest slot in
\* range: no slot returned by the Slot Finder is later than the selected
\* one, and a retry on the same tee sheet selects the same slot.
C20_LatestSlotAlways ==
  frame.stage = "selected" =>
    /\ \A k \in DOMAIN frame.availableTimes :
         ~SortsBefore(frame.selected[1], frame.availableTimes[k])
    /\ frame.previous # <<>> => frame.selected = frame.previous

\* ------------------------------------------------------------------------
\* Retry Controller and Booking Sessions
\* ------------------------------------------------------------------------
\* the request object of a session of the batch
RequestOf(h, w) == h[w.req]

\* C11: a request with a malformed playDate ends in error after exactly one
\* attempt: its session never makes a second attempt.
C11_MalformedDateSingleAttempt ==
  \A k \in DOMAIN workers :
    (workers[k].req \in DOMAIN heap /\ InvalidDate(RequestOf(heap, workers[k]).playDate))
      => workers[k].attempt <= 1

\* the status an attempt with message m records on request r
OutcomeRecorded(m, r) ==
  /\ m.kind = "booked" => r.status = "success" /\ r.bookedTime = m.time
  /\ m.kind \in {"failedDate", "noTimes"} => r.status = "failed"
  /\ m.kind \in {"error", "invalidDate"} => r.status = "error"

\* every session whose last attempt produced a message holds a request with
\* the outcome of that attempt
LastAttemptOnRequest(ws, h) ==
  \A k \in DOMAIN ws :
    (ws[k].req \in DOMAIN h /\ ws[k].message # NoMessage)
      => OutcomeRecorded(ws[k].message, RequestOf(h, ws[k]))

\* the queue file written at the end of the run holds, for every result the
\* batches returned, the outcome that result reports
LastAttemptInQueueFile ==
  pc = "exit0" =>
    \A j \in DOMAIN results :
      \A e \in Entries(disk.doc) : e.id = results[j].id => OutcomeRecorded(results[j], e)

C13_ExceptionsRetriedToBound ==
  [][\A k \in DOMAIN workers :
       (/\ k \in DOMAIN workers'
        /\ workers[k].pc = "attempt" /\ workers'[k].pc = "close"
        /\ ~InvalidDate(RequestOf(heap, workers[k]).playDate)
        /\ RequestOf(heap', workers'[k]).status = "error")
         => /\ workers[k].attempt + 1 = maxRetries
            /\ RequestOf(heap', workers'[k]).failureReason = ErrorMessage]_vars

\* C14: whatever failure one request suffers, every other due request is
\* still attempted and reaches a terminal status of its own: a run that got
\* as far as a login ends with no due request left pending.
C14_FailuresAreIsolated ==
  (pc = "exit0" /\ logins > 0) =>
    \A k \in DOMAIN todayRequests : heap[todayRequests[k]].status # "pending"

OpenBrowsers(ws) == {k \in DOMAIN ws : ws[k].browser}

\* C15: at most 3 browsers are open at any moment, the sessions that exist
\* are those of the current batch, and the batch loop moves on to the next
\* batch only when every session of the batch has returned its result with
\* its browser closed.
C15_BatchBoundsConcurrency ==
  [][/\ Cardinality(OpenBrowsers(workers')) <= 3
     /\ \A k \in DOMAIN workers' : workers'[k].req = todayRequests'[i' + k]
     /\ i' > i => \A k \in DOMAIN workers :
                    workers[k].pc = "resolved" /\ ~workers[k].browser]_vars

\* the second batch is running with a browser open
C15_Witness ==
  /\ pc = "batch" /\ i = maxConcurrentRequests
  /\ OpenBrowsers(workers) # {}
  /\ \A k \in 1..maxConcurrentRequests : heap[todayRequests[k]].status # "pending"

\* C16: the queue file of a run with due requests is written only after
\* every batch has completed: no session is still running when the file is
\* written.
C16_WriteAfterAllBatches ==
  [][(/\ fileWrites' > fileWrites
      /\ cfg.variant = "parallel"
      /\ Len(todayRequests) > 0)
       => \A k \in DOMAIN workers : workers[k].pc \in {"resolved", "rejected"}]_vars

\* C17: in a scheduled run every session calls sleepUntilTimeInZone exactly
\* once after its login and before its first attempt; in an unscheduled run
\* it never does.
C17_GateOncePerSession ==
  \A k \in DOMAIN workers :
    workers[k].pc = "attempt" => workers[k].gate = (IF cfg.scheduled THEN 1 ELSE 0)

\* C18: when processRealRequests has returned, no browser launched by the
\* run is still open (a browser whose close() failed is not counted).
C18_NoBrowserLeftOpen ==
  pc \in {"report", "exit0"} =>
    \A k \in DOMAIN workers : workers[k].pc # "rejected" => ~workers[k].browser


\* the label of a calendar date as the date control shows it: 'Feb 28'
DateLabel(playDate) == MonthShort[playDate[2]] \o " " \o ToString(playDate[3])

\* session k has just finished an attempt
AttemptDone(k) ==
  /\ k \in DOMAIN workers /\ k \in DOMAIN workers'
  /\ workers[k].pc = "attempt"
  /\ workers'[k] # workers[k]

\* C21: an attempt that cannot select the date control records the request as
\* failed with a failureReason holding the attempted date label, an attempt
\* that finds no qualifying slot records it as failed, neither of them as
\* error; the attempt changes no other session and no other request, the
\* batch goes on, and when no session was rejected every due request of the
\* run has a result.
C21_ExpectedNegativesAreFailed ==
  [][/\ \A k \in DOMAIN workers :
          (AttemptDone(k) /\ workers'[k].message.kind \in {"failedDate", "noTimes"})
            => /\ RequestOf(heap', workers'[k]).status = "failed"
               /\ RequestOf(heap', workers'[k]).failureReason =
                    (IF workers'[k].message.kind = "failedDate"
                     THEN "Could not select date \""
                            \o DateLabel(RequestOf(heap, workers[k]).playDate) \o "\""
                     ELSE "No times with 4 spots in range")
               /\ pc' = "batch"
               /\ workers'[k].pc \in {"attempt", "close"}
               /\ \A j \in DOMAIN workers : j # k => workers'[j] = workers[j]
               /\ \A r \in DOMAIN heap : r # workers[k].req => heap'[r] = heap[r]
     /\ (pc' = "finish" /\ \A k \in DOMAIN workers' : workers'[k].pc # "rejected")
          => Len(results') = Len(todayRequests')]_vars

\* the run has gone through both batches: the first request could not have
\* its date selected, the second found no slot, and the request of the
\* second batch was booked
C21_Witness ==
  /\ pc = "finish"
  /\ Len(results) = MaxBatchRequests
  /\ results[1].kind = "failedDate" /\ heap[todayRequests[1]].status = "failed"
  /\ heap[todayRequests[1]].failureReason = "Could not select date \"Feb 28\""
  /\ results[2].kind = "noTimes" /\ heap[todayRequests[2]].status = "failed"
  /\ results[MaxBatchRequests].kind = "booked"

\* C22: every request that a finished run holds with status success has a
\* bookedTime and a confirmationNumber, whether the run booked for real or
\* simulated.
C22_SuccessHasConfirmation ==
  pc = "exit0" =>
    \A r \in DOMAIN heap :
      heap[r].status = "success" =>
        heap[r].bookedTime # Absent /\ heap[r].confirmationNumber # Absent

\* C23: a run with SIMULATE_BOOKING set launches no browser and attempts no
\* login, whatever the other flags are, and every due request of the finished
\* run is a success with processedDate, bookedTime and confirmationNumber.
C23_SimulationNeverTouchesBrowser ==
  cfg.simulate =>
    /\ launched = 0 /\ logins = 0
    /\ \A k \in DOMAIN workers : ~workers[k].browser
    /\ pc = "exit0" =>
         \A k \in DOMAIN todayRequests :
           LET r == heap[todayRequests[k]]
           IN /\ r.status = "success"
              /\ r.processedDate # Absent
              /\ r.bookedTime # Absent
              /\ r.confirmationNumber # Absent

\* C24: after the save of a run, every request the submission page added to
\* the queue file is in bookingRequests or processedRequests of the file,
\* however the page's read and write interleave with the run.
C24_SubmittedNeverLost ==
  (pc \in {"report", "exit0"} /\ fileWrites > 0) =>
    \A id \in surface.added : id \in DocIds(disk.doc)

\* the ids of the requests the run selected as due
DueIds == {heap[todayRequests[k]].id : k \in DOMAIN todayRequests}

\* the fields of a request the Request Processor does not manage
Unmanaged(r) ==
  [id |-> r.id, requestDate |-> r.requestDate, playDate |-> r.playDate,
   timeRange |-> r.timeRange, requestedBy |-> r.requestedBy]

\* C25: when a run has ended, the requests of bookingRequests it did not
\* select are in the queue file with all their fields and in their order,
\* the entries processedRequests held before the run are there unchanged and
\* in their order, and a due request differs from what was loaded in status,
\* processedDate, bookedTime, confirmationNumber and failureReason only.
C25_UnmanagedUntouched ==
  (Exited /\ diskBefore.state = "ok") =>
    /\ SelectSeq(disk.doc.bookingRequests, LAMBDA r : r.id \notin DueIds)
         = SelectSeq(diskBefore.doc.bookingRequests, LAMBDA r : r.id \notin DueIds)
    /\ LET now == disk.doc.processedRequests
           before == diskBefore.doc.processedRequests
       IN /\ Len(before) <= Len(now)
          /\ SubSeq(now, Len(now) - Len(before) + 1, Len(now)) = before
    /\ \A k \in DOMAIN todayRequests :
         \E j \in DOMAIN diskBefore.doc.bookingRequests :
           Unmanaged(diskBefore.doc.bookingRequests[j]) = Unmanaged(heap[todayRequests[k]])
    /\ \A e \in Entries(disk.doc) :
         e.id \in DueIds =>
           \E j \in DOMAIN diskBefore.doc.bookingRequests :
             Unmanaged(diskBefore.doc.bookingRequests[j]) = Unmanaged(e)

\* the due requests that are a success
SuccessfulDue == {k \in DOMAIN todayRequests : heap[todayRequests[k]].status = "success"}

\* C26: a run with due requests reports as processed_count the number of due
\* requests whose status is success, and booking_status success exactly when
\* that count is positive, failure otherwise.
C26_CountMatchesSuccesses ==
  (pc = "exit0" /\ Len(todayRequests) > 0) =>
    /\ LastOutput("processed_count") = Cardinality(SuccessfulDue)
    /\ LastOutput("booking_status") =
         (IF LastOutput("processed_count") > 0 THEN "success" ELSE "failure")

\* C27: the results a run with due requests reports hold exactly one line
\* for every due request that ended success, failed or error, and the lines
\* are in the order of the due requests.
C27_OneLinePerDueRequest ==
  (pc = "exit0" /\ Len(todayRequests) > 0) =>
    LET lines == LastOutput("results")
        ended == SelectSeq(todayRequests, LAMBDA r : heap[r].status # "pending")
    IN /\ Len(lines) = Len(ended)
       /\ \A k \in DOMAIN ended : lines[k].id = heap[ended[k]].id

\* the position of reference r in list s
PositionIn(s, r) == CHOOSE k \in DOMAIN s : s[k] = r

\* list a holds elements of list b only, in the order they have in b
InOrderOf(a, b) ==
  /\ \A k \in DOMAIN a : \E j \in DOMAIN b : b[j] = a[k]
  /\ \A k, j \in DOMAIN a : k < j => PositionIn(b, a[k]) < PositionIn(b, a[j])

OutcomeFields(r) ==
  <<r.status, r.processedDate, r.bookedTime, r.confirmationNumber, r.failureReason>>

\* the retry loop and the catch block of the session of request r are over:
\* the session is closing or has settled, or its request loop or batch lies
\* behind the loop index
Returned(r) ==
  \/ \E k \in DOMAIN workers :
       workers[k].req = r /\ workers[k].pc \in {"close", "resolved", "rejected"}
  \/ \E j \in DOMAIN todayRequests :
       /\ todayRequests[j] = r
       /\ pc \in {"loop", "batch", "seqloop", "seqclose", "finish", "report",
                  "exit0", "exit1"}
       /\ IF cfg.variant = "sequential" /\ ~Simulated THEN j < i ELSE j <= i

\* C29 (as stated): once a request has left pending, no later attempt, retry
\* or run changes its status or outcome fields.
C29_MutatedExactlyOnce ==
  [][\A r \in DOMAIN heap :
       (r \in DOMAIN heap' /\ heap[r].status # "pending")
         => OutcomeFields(heap'[r]) = OutcomeFields(heap[r])]_vars

\* C29 (amended): every step that changes status or outcome fields of a
\* request sets status and processedDate together, and happens before the
\* retry loop of the request's session is over; a request that is resolved
\* in the queue file is in the file unchanged after every later write.
C29_MutatedOnlyByItsSession ==
  [][/\ \A r \in DOMAIN heap :
          (r \in DOMAIN heap' /\ OutcomeFields(heap'[r]) # OutcomeFields(heap[r]))
            => /\ heap'[r].status # "pending"
               /\ heap'[r].processedDate # Absent
               /\ ~Returned(r)
     /\ \A e \in Entries(disk.doc) : e.status # "pending" => e \in Entries(disk'.doc)]_vars

\* the second run has written the queue file, which holds unchanged a request
\* that a retry of the first run booked after an attempt had failed
C29_Witness ==
  /\ runs = 2 /\ pc = "exit0" /\ fileWrites > 0
  /\ \E e \in Entries(diskBefore.doc) :
       /\ e.status = "success"
       /\ e.failureReason = "No times with 4 spots in range"
       /\ e \in Entries(disk.doc)

\* session k ends its work on its request in this step
SessionEnds(k) ==
  /\ k \in DOMAIN workers /\ k \in DOMAIN workers'
  /\ workers[k].pc \in {"launch", "login", "attempt"}
  /\ workers'[k].pc \in {"close", "resolved"}

\* session k has called processSingleRequest by the end of this step: it did
\* in an earlier iteration of the loop, or this step is a call that books
\* (a first iteration that leaves the loop without a booking threw before
\* the call)
HasAttempted(k) ==
  workers[k].pc = "attempt" /\ (workers[k].attempt >= 1 \/ workers'[k].success)

\* the bound of the retry loop and its exit on success
AttemptsBounded(k) ==
  /\ (AttemptDone(k) => workers[k].attempt < maxRetries /\ ~workers[k].success)
  /\ (k \in DOMAIN workers' /\ workers[k].success)
        => /\ workers'[k].pc # "attempt"
           /\ RequestOf(heap', workers[k]) = RequestOf(heap, workers[k])

\* C30 (as stated): every session makes at least one and at most maxRetries
\* attempts on its request, starts an attempt only when the previous one did
\* not succeed, and makes none after a success.
C30_OneToMaxRetriesAttempts ==
  [][\A k \in DOMAIN workers :
       /\ AttemptsBounded(k)
       /\ SessionEnds(k) => HasAttempted(k)]_vars

\* C30 (amended): at most maxRetries attempts, an attempt only when the
\* previous one did not succeed, none after a success; a session that ends
\* without an attempt threw in launch, login or navigation and has recorded
\* its request as error.
C30_AtMostMaxRetriesAttempts ==
  [][\A k \in DOMAIN workers :
       /\ AttemptsBounded(k)
       /\ (SessionEnds(k) /\ ~HasAttempted(k))
            => /\ RequestOf(heap', workers[k]).status = "error"
               /\ workers'[k].message.kind = "error"
               /\ ~workers'[k].success]_vars

\* one session has given up after its attempts found no slot while another
\* has booked and returned
C30_Witness ==
  \E k, j \in DOMAIN workers :
    /\ workers[k].pc = "close" /\ ~workers[k].success
    /\ workers[k].message.kind = "noTimes"
    /\ workers[j].pc = "resolved" /\ workers[j].success
    /\ RequestOf(heap, workers[j]).status = "success"

\* the document processQueue loaded at the start of the run
LoadedDoc ==
  IF diskBefore.state = "ok" THEN diskBefore.doc
  ELSE IF cfg.testMode /\ diskBefore.state = "missing" THEN TestQueue(today)
  ELSE EmptyDoc

\* the ids of a list of requests, in the order of the list
IdSeq(s) == [k \in DOMAIN s |-> s[k].id]

\* the ids of the requests the run selected, in the order of todayRequests
DueIdSeq == [k \in DOMAIN todayRequests |-> heap[todayRequests[k]].id]

DelayComputed == timer.stage \in {"waiting", "resolved"} /\ timer.error = ""

\* the instant the call read the clock (the timeout adds the delay to it)
ClockRead == IF timer.stage = "resolved" THEN timer.now - timer.delay ELSE timer.now

\* minutes since midnight on the wall clock of the zone at instant t
WallClock(timeZoneIANA, t) == (t + GmtOffsetMinutes(timeZoneIANA, t)) % 1440

\* day number of the date of the zone at instant t
ZoneDay(timeZoneIANA, t) == (t + GmtOffsetMinutes(timeZoneIANA, t)) \div 1440

\* the offset of the zone does not change in the 24 hours after instant t
ConstantOffsetFrom(timeZoneIANA, t) ==
  \A k \in 0..48 :
    GmtOffsetMinutes(timeZoneIANA, t + 30 * k) = GmtOffsetMinutes(timeZoneIANA, t)

\* C33: the delay sleepUntilTimeInZone computes is never negative; when the
\* offset of the zone is constant it is more than 0 and at most 24 hours, it
\* ends when the wall clock of the zone shows the target time, on the date
\* the zone has at the clock reading if the target time is still ahead that
\* day and on the next date if it is at or before the clock reading.
C33_DelayWithinOneDay ==
  DelayComputed =>
    /\ timer.delay >= 0
    /\ ConstantOffsetFrom(timer.timeZoneIANA, ClockRead) =>
         LET z == timer.timeZoneIANA
             wanted == timer.targetHour24 * 60 + timer.targetMinute
             passed == wanted <= WallClock(z, ClockRead)
         IN /\ timer.delay > 0 /\ timer.delay <= 1440
            /\ WallClock(z, ClockRead + timer.delay) = wanted
            /\ ZoneDay(z, ClockRead + timer.delay)
                 = ZoneDay(z, ClockRead) + (IF passed THEN 1 ELSE 0)

\* the timeout has fired a full day after a call made at 23:07 New York time
C33_Witness ==
  /\ timer.stage = "resolved"
  /\ timer.timeZoneIANA = "America/New_York"
  /\ timer.targetHour24 = 23 /\ timer.targetMinute = 7
  /\ timer.delay = 1440
  /\ WallClock("America/New_York", timer.now) = 23 * 60 + 7

\* ------------------------------------------------------------------------
\* Outcome fields, runs over several days
\* ------------------------------------------------------------------------
\* C34: after a run, every request of the queue file with status success has
\* a bookedTime and no failureReason, and every request with status failed
\* or error has a failureReason and no bookedTime.
C34_OutcomeFieldsMatchStatus ==
  pc = "exit0" =>
    \A e \in Entries(disk.doc) :
      /\ e.status = "success" => e.bookedTime # Absent /\ e.failureReason = Absent
      /\ e.status \in {"failed", "error"} =>
           e.failureReason # Absent /\ e.bookedTime = Absent

\* C35: whatever runs have taken place, processedRequests of the queue file
\* holds no request id twice, and no run selects for processing a request
\* that an earlier run has already put into processedRequests.
C35_ProcessedAtMostOnce ==
  /\ \A k, j \in DOMAIN disk.doc.processedRequests :
       k # j => disk.doc.processedRequests[k].id # disk.doc.processedRequests[j].id
  /\ \A k \in DOMAIN todayRequests :
       heap[todayRequests[k]].id \notin Ids(diskBefore.doc.processedRequests)

\* the batch that is running is the slice of at most maxConcurrentRequests due
\* requests at the loop index, one session for each, no request twice
BatchIsSlice ==
  pc = "batch" =>
    /\ i % maxConcurrentRequests = 0
    /\ Len(workers) = (IF Len(todayRequests) - i < maxConcurrentRequests
                       THEN Len(todayRequests) - i ELSE maxConcurrentRequests)
    /\ \A k \in DOMAIN workers : workers[k].req = todayRequests[i + k]
    /\ \A k, j \in DOMAIN workers : k # j => workers[k].req # workers[j].req

\* C36: the batches are consecutive slices of at most 3 due requests in queue
\* order, only the last one shorter, each request of a batch has one session
\* and no two sessions hold the same request object, and when the processing
\* is over every due request has been in a batch.
C36_BatchesCoverDueRequests ==
  /\ BatchIsSlice
  /\ pc \in {"finish", "report", "exit0"} =>
       \A j \in DOMAIN todayRequests : j <= i + Len(workers)

\* ------------------------------------------------------------------------
\* Sessions of a batch against processing one request after another
\* ------------------------------------------------------------------------
\* the tee sheet with open rows
OpenSheet == CHOOSE s \in AttemptSheets : s # <<>>

\* the retry loop of one session run alone from iteration `attempt` on
RECURSIVE LoopAlone(_, _, _)
LoopAlone(request, steps, attempt) ==
  IF steps[attempt] = "throws"
  THEN [request |-> CatchInSession(request, ErrorMessage),
        message |-> Msg("error", request.id), success |-> FALSE]
  ELSE LET res == processSingleRequest("parallel", request, "rendered",
                    IF steps[attempt] = "booked" THEN OpenSheet ELSE <<>>)
       IN IF res.success \/ attempt = maxRetries THEN res
          ELSE LoopAlone(res.request, steps, attempt + 1)

\* what one session returns when it runs alone from launch to close
SessionAlone(request, p) ==
  IF p.steps \in {<<"launchThrows">>, <<"loginThrows">>}
  THEN [request |-> CatchInSession(request, ErrorMessage),
        message |-> Msg("error", request.id), success |-> FALSE]
  ELSE LoopAlone(request, p.steps, 1)

\* the due requests of the run, which are all the requests of the loaded
\* document, and the position of the first one whose session rejects (0 if
\* none does)
DueLoaded == LoadedDoc.bookingRequests

FirstRejecting ==
  LET rejecting == {j \in DOMAIN DueLoaded : cfg.plan[j].close = "rejects"}
  IN IF rejecting = {} THEN 0 ELSE CHOOSE j \in rejecting : \A x \in rejecting : j <= x

\* the requests after one-by-one processing: those up to the first rejecting
\* session are as their session left them, the others were never started
DueOneByOne ==
  [j \in DOMAIN DueLoaded |->
     IF FirstRejecting = 0 \/ j <= FirstRejecting
     THEN SessionAlone(DueLoaded[j], cfg.plan[j]).request
     ELSE DueLoaded[j]]

\* the number of requests in the batches that were joined
JoinedOneByOne ==
  IF FirstRejecting = 0 THEN Len(DueLoaded)
  ELSE ((FirstRejecting - 1) \div maxConcurrentRequests) * maxConcurrentRequests

DocOneByOne ==
  [bookingRequests |-> SelectSeq(DueOneByOne, LAMBDA r : r.status = "pending"),
   processedRequests |-> DueOneByOne \o LoadedDoc.processedRequests]

ResultsOneByOne ==
  [j \in 1..JoinedOneByOne |-> SessionAlone(DueLoaded[j], cfg.plan[j]).message]

CountOneByOne ==
  Cardinality({j \in 1..JoinedOneByOne : SessionAlone(DueLoaded[j], cfg.plan[j]).success})

\* C37: with the behaviour of the site fixed for every request, a run ends
\* with the queue file, the results and the processed_count that processing
\* the due requests one after another gives, however the sessions of a batch
\* interleave.
C37_InterleavingIndependent ==
  pc = "exit0" =>
    /\ disk.doc = DocOneByOne
    /\ LastOutput("results") = ResultsOneByOne
    /\ LastOutput("processed_count") = CountOneByOne

\* request id is resolved in the queue file: in processedRequests with a
\* terminal status and not in bookingRequests
ResolvedInFile(id) ==
  /\ id \notin Ids(disk.doc.bookingRequests)
  /\ \E k \in DOMAIN disk.doc.processedRequests :
       /\ disk.doc.processedRequests[k].id = id
       /\ disk.doc.processedRequests[k].status \in {"success", "failed", "error"}

\* C38: with a run that completes normally on every calendar day, every
\* request that was submitted as pending for its submission day or a later
\* day is eventually resolved in the queue file, and stays so.
C38_EventuallyResolved ==
  <>[](\A id \in DocIds(disk.doc) : ResolvedInFile(id))

\* a pending request whose play date lies before day td
Stale(r, td) == r.status = "pending" /\ DayOf(r.playDate) < DayOf(td)

====
